---------------------------- MODULE Spec2Model ----------------------------
(***************************************************************************)
(* A model of lwIP's netdb layer (src/api/netdb.c): the getaddrinfo /      *)
(* freeaddrinfo pair over the MEMP_NETDB pool, and the RFC 6724            *)
(* destination address sort with its classifier and comparator.            *)
(*                                                                         *)
(* An address (ip_addr_t) is a record [type, addr, zone]: a V4 address     *)
(* holds its four bytes, a V6 address its eight 16-bit groups (so the      *)
(* 32-bit word addr[k] of ip6_addr_t is the pair of groups 2k+1, 2k+2 in   *)
(* network order) and its zone id.                                         *)
(***************************************************************************)
EXTENDS Integers, Sequences, FiniteSets, TLC

(***************************************************************************)
(* Addresses                                                               *)
(***************************************************************************)
IP4(a, b, c, d) == [type |-> "V4", addr |-> <<a, b, c, d>>, zone |-> 0]

IP6Z(g, z) == [type |-> "V6", addr |-> g, zone |-> z]

IP6(g) == IP6Z(g, 0)

\* ip4_2_ipv4_mapped_ipv6: the view ::ffff:a.b.c.d of an IPv4 address.
ip4_2_ipv4_mapped_ipv6(ip) ==
  <<0, 0, 0, 0, 0, \hFFFF, ip.addr[1] * 256 + ip.addr[2], ip.addr[3] * 256 + ip.addr[4]>>

\* The view that reads an address with a zone id as a link-local one.
ZonedView(ip) ==
  IF ip.type = "V4" THEN ip4_2_ipv4_mapped_ipv6(ip)
  ELSE IF ip.zone # 0 THEN [ip.addr EXCEPT ![1] = \hFE80]
  ELSE ip.addr

\* The ip6_addr_t the sort hands to the classifier for a stored address.
MappedView(ip) == IF ip.type = "V4" THEN ip4_2_ipv4_mapped_ipv6(ip) ELSE ip.addr

\* g with its low n bits cleared (the "& mask" of a prefix test on a group).
MaskLow(g, n) == g - (g % (2 ^ n))

ip6_addr_ismulticast(a) == MaskLow(a[1], 8) = \hFF00

ip6_addr_multicast_scope(a) == a[1] % 16

ip6_addr_islinklocal(a) == MaskLow(a[1], 6) = \hFE80

ip6_addr_issitelocal(a) == MaskLow(a[1], 6) = \hFEC0

ip6_addr_isuniquelocal(a) == MaskLow(a[1], 9) = \hFC00

ip6_addr_isloopback(a) ==
  /\ \A k \in 1..7 : a[k] = 0
  /\ a[8] = 1

ip6_addr_isany(a) == \A k \in 1..8 : a[k] = 0

ip6_addr_isipv4mappedipv6(a) ==
  /\ \A k \in 1..5 : a[k] = 0
  /\ a[6] = \hFFFF

ip6_addr_isipv4compatibleipv6(a) == \A k \in 1..6 : a[k] = 0

ip6_addr_is6to4(a) == a[1] = \h2002

ip6_addr_isteredo(a) == a[1] = \h2001 /\ a[2] = 0

ip6_addr_is6bone(a) == a[1] = \h3FFE

ip6_addr_isip4vmappedlinklocal(a) ==
  /\ \A k \in 1..5 : a[k] = 0
  /\ a[6] = \hFFFF
  /\ a[7] = \hA9FE

ip6_addr_isip4vmappedloopback(a) ==
  /\ \A k \in 1..5 : a[k] = 0
  /\ a[6] = \hFFFF
  /\ MaskLow(a[7], 8) = \h7F00

(***************************************************************************)
(* Scopes, labels, precedence                                              *)
(***************************************************************************)
IP6_MULTICAST_SCOPE_LINK_LOCAL == 2
IP6_MULTICAST_SCOPE_SITE_LOCAL == 5
IP6_MULTICAST_SCOPE_GLOBAL == 14

IP6_PRECEDENCE_LABEL_LOCALHOST == 0
IP6_PRECEDENCE_LABEL_GENERAL == 1
IP6_PRECEDENCE_LABEL_IPV4_COMPATIBLE_IPV6 == 3
IP6_PRECEDENCE_LABEL_6TO4 == 2
IP6_PRECEDENCE_LABEL_IPV4_MAPPED_IPV6 == 4
IP6_PRECEDENCE_LABEL_TOREDO == 5
IP6_PRECEDENCE_LABEL_SITE_LOCAL == 11
IP6_PRECEDENCE_LABEL_6BONE == 12
IP6_PRECEDENCE_LABEL_ULA == 13

\* The scope function without the test for IPv4-mapped loopback.
dns_addr_get_scope_no_mapped_loopback(a) ==
  IF ip6_addr_ismulticast(a) THEN ip6_addr_multicast_scope(a)
  ELSE IF \/ ip6_addr_islinklocal(a)
          \/ ip6_addr_isloopback(a)
          \/ ip6_addr_isip4vmappedlinklocal(a)
       THEN IP6_MULTICAST_SCOPE_LINK_LOCAL
  ELSE IF ip6_addr_issitelocal(a) THEN IP6_MULTICAST_SCOPE_SITE_LOCAL
  ELSE IP6_MULTICAST_SCOPE_GLOBAL

dns_addr_get_scope(a) ==
  IF ip6_addr_ismulticast(a) THEN ip6_addr_multicast_scope(a)
  ELSE IF \/ ip6_addr_islinklocal(a)
          \/ ip6_addr_isloopback(a)
          \/ ip6_addr_isip4vmappedlinklocal(a)
          \/ ip6_addr_isip4vmappedloopback(a)
       THEN IP6_MULTICAST_SCOPE_LINK_LOCAL
  ELSE IF ip6_addr_issitelocal(a) THEN IP6_MULTICAST_SCOPE_SITE_LOCAL
  ELSE IP6_MULTICAST_SCOPE_GLOBAL

\* The label function with the ::/96 test ahead of the ::1/128 test.
dns_get_precedence_label_compatible_first(a) ==
  IF ip6_addr_isipv4compatibleipv6(a) THEN IP6_PRECEDENCE_LABEL_IPV4_COMPATIBLE_IPV6
  ELSE IF ip6_addr_isloopback(a) THEN IP6_PRECEDENCE_LABEL_LOCALHOST
  ELSE IF ip6_addr_isipv4mappedipv6(a) THEN IP6_PRECEDENCE_LABEL_IPV4_MAPPED_IPV6
  ELSE IF ip6_addr_isteredo(a) THEN IP6_PRECEDENCE_LABEL_TOREDO
  ELSE IF ip6_addr_is6to4(a) THEN IP6_PRECEDENCE_LABEL_6TO4
  ELSE IF ip6_addr_is6bone(a) THEN IP6_PRECEDENCE_LABEL_6BONE
  ELSE IF ip6_addr_issitelocal(a) THEN IP6_PRECEDENCE_LABEL_SITE_LOCAL
  ELSE IF ip6_addr_isuniquelocal(a) THEN IP6_PRECEDENCE_LABEL_ULA
  ELSE IP6_PRECEDENCE_LABEL_GENERAL

dns_get_precedence_label(a) ==
  IF ip6_addr_isloopback(a) THEN IP6_PRECEDENCE_LABEL_LOCALHOST
  ELSE IF ip6_addr_isipv4mappedipv6(a) THEN IP6_PRECEDENCE_LABEL_IPV4_MAPPED_IPV6
  ELSE IF ip6_addr_isipv4compatibleipv6(a) THEN IP6_PRECEDENCE_LABEL_IPV4_COMPATIBLE_IPV6
  ELSE IF ip6_addr_isteredo(a) THEN IP6_PRECEDENCE_LABEL_TOREDO
  ELSE IF ip6_addr_is6to4(a) THEN IP6_PRECEDENCE_LABEL_6TO4
  ELSE IF ip6_addr_is6bone(a) THEN IP6_PRECEDENCE_LABEL_6BONE
  ELSE IF ip6_addr_issitelocal(a) THEN IP6_PRECEDENCE_LABEL_SITE_LOCAL
  ELSE IF ip6_addr_isuniquelocal(a) THEN IP6_PRECEDENCE_LABEL_ULA
  ELSE IP6_PRECEDENCE_LABEL_GENERAL

\* The precedence switch with the unlisted labels falling into the last case.
dns_precedence_default_in_last_case(label) ==
  CASE label = IP6_PRECEDENCE_LABEL_LOCALHOST -> 50
    [] label = IP6_PRECEDENCE_LABEL_GENERAL -> 40
    [] label = IP6_PRECEDENCE_LABEL_IPV4_MAPPED_IPV6 -> 35
    [] label = IP6_PRECEDENCE_LABEL_6TO4 -> 30
    [] label = IP6_PRECEDENCE_LABEL_TOREDO -> 5
    [] label = IP6_PRECEDENCE_LABEL_ULA -> 3
    [] OTHER -> 1

dns_precedence_for_label(label) ==
  CASE label = IP6_PRECEDENCE_LABEL_LOCALHOST -> 50
    [] label = IP6_PRECEDENCE_LABEL_GENERAL -> 40
    [] label = IP6_PRECEDENCE_LABEL_IPV4_MAPPED_IPV6 -> 35
    [] label = IP6_PRECEDENCE_LABEL_6TO4 -> 30
    [] label = IP6_PRECEDENCE_LABEL_TOREDO -> 5
    [] label = IP6_PRECEDENCE_LABEL_ULA -> 3
    [] label \in {IP6_PRECEDENCE_LABEL_IPV4_COMPATIBLE_IPV6,
                  IP6_PRECEDENCE_LABEL_SITE_LOCAL,
                  IP6_PRECEDENCE_LABEL_6BONE} -> 1
    [] OTHER -> 0

(***************************************************************************)
(* Source summary: three s32_t bit masks                                   *)
(***************************************************************************)
\* (0x1 << n & flags) != 0
HasFlag(flags, n) == (flags \div (2 ^ n)) % 2 = 1

\* flags |= 0x1 << n
SetFlag(flags, n) == IF HasFlag(flags, n) THEN flags ELSE flags + 2 ^ n

NoSources == [ipv6 |-> 0, ipv4 |-> 0, label |-> 0]

\* The summary loop with one scope mask for the sources of both classes.
AddSourceOneMask(S, ip) ==
  LET source_addr == MappedView(ip) IN
    [label |-> SetFlag(S.label, dns_get_precedence_label(source_addr)),
     ipv4 |-> SetFlag(S.ipv4, dns_addr_get_scope(source_addr)),
     ipv6 |-> SetFlag(S.ipv6, dns_addr_get_scope(source_addr))]

\* One iteration of the summary loop of lwip_sortdestinationaddresses.
AddSource(S, ip) ==
  LET source_addr == MappedView(ip) IN
    [label |-> SetFlag(S.label, dns_get_precedence_label(source_addr)),
     ipv4 |-> IF ip6_addr_isipv4mappedipv6(source_addr)
              THEN SetFlag(S.ipv4, dns_addr_get_scope(source_addr))
              ELSE S.ipv4,
     ipv6 |-> IF ip6_addr_isipv4mappedipv6(source_addr)
              THEN S.ipv6
              ELSE SetFlag(S.ipv6, dns_addr_get_scope(source_addr))]

RECURSIVE SummariseFrom(_, _, _)
SummariseFrom(srcs, k, S) ==
  IF k > Len(srcs) THEN S ELSE SummariseFrom(srcs, k + 1, AddSource(S, srcs[k]))

SourceSummary(srcs) == SummariseFrom(srcs, 1, NoSources)

(***************************************************************************)
(* The comparator                                                          *)
(***************************************************************************)
\* Rule 2's test for one candidate.
MatchingScopeBug65583(a, S) == HasFlag(S.ipv6, dns_addr_get_scope(a))

MatchingScope(a, S) ==
  IF ip6_addr_isipv4mappedipv6(a)
  THEN HasFlag(S.ipv4, dns_addr_get_scope(a))
  ELSE HasFlag(S.ipv6, dns_addr_get_scope(a))

\* Rule 5's test for one candidate.
MatchingLabel(a, S) == HasFlag(S.label, dns_get_precedence_label(a))

\* The comparator with rule 6 tried before rule 5.
dns_compare_precedence_before_label(a1, a2, S) ==
  LET cand_1_scope == dns_addr_get_scope(a1)
      cand_2_scope == dns_addr_get_scope(a2)
      cand_1_matching_scope == MatchingScope(a1, S)
      cand_2_matching_scope == MatchingScope(a2, S)
      cand_1_matching_label == MatchingLabel(a1, S)
      cand_2_matching_label == MatchingLabel(a2, S)
      cand_1_precedence == dns_precedence_for_label(dns_get_precedence_label(a1))
      cand_2_precedence == dns_precedence_for_label(dns_get_precedence_label(a2))
  IN
    IF cand_1_matching_scope /\ ~cand_2_matching_scope THEN 1
    ELSE IF cand_2_matching_scope /\ ~cand_1_matching_scope THEN -1
    ELSE IF cand_1_precedence > cand_2_precedence THEN 1
    ELSE IF cand_2_precedence > cand_1_precedence THEN -1
    ELSE IF cand_1_matching_label /\ ~cand_2_matching_label THEN 1
    ELSE IF cand_2_matching_label /\ ~cand_1_matching_label THEN -1
    ELSE IF cand_1_scope < cand_2_scope THEN 1
    ELSE IF cand_2_scope < cand_1_scope THEN -1
    ELSE 0

\* The comparator with rule 2 answering for the first candidate only.
dns_compare_one_sided(a1, a2, S) ==
  LET cand_1_scope == dns_addr_get_scope(a1)
      cand_2_scope == dns_addr_get_scope(a2)
      cand_1_matching_scope == MatchingScope(a1, S)
      cand_2_matching_scope == MatchingScope(a2, S)
      cand_1_matching_label == MatchingLabel(a1, S)
      cand_2_matching_label == MatchingLabel(a2, S)
      cand_1_precedence == dns_precedence_for_label(dns_get_precedence_label(a1))
      cand_2_precedence == dns_precedence_for_label(dns_get_precedence_label(a2))
  IN
    IF cand_1_matching_scope /\ ~cand_2_matching_scope THEN 1
    ELSE IF cand_1_matching_label /\ ~cand_2_matching_label THEN 1
    ELSE IF cand_2_matching_label /\ ~cand_1_matching_label THEN -1
    ELSE IF cand_1_precedence > cand_2_precedence THEN 1
    ELSE IF cand_2_precedence > cand_1_precedence THEN -1
    ELSE IF cand_1_scope < cand_2_scope THEN 1
    ELSE IF cand_2_scope < cand_1_scope THEN -1
    ELSE 0

dns_compare_destination_address(a1, a2, S) ==
  LET cand_1_scope == dns_addr_get_scope(a1)
      cand_2_scope == dns_addr_get_scope(a2)
      cand_1_matching_scope == MatchingScope(a1, S)
      cand_2_matching_scope == MatchingScope(a2, S)
      cand_1_matching_label == MatchingLabel(a1, S)
      cand_2_matching_label == MatchingLabel(a2, S)
      cand_1_precedence == dns_precedence_for_label(dns_get_precedence_label(a1))
      cand_2_precedence == dns_precedence_for_label(dns_get_precedence_label(a2))
  IN
    IF cand_1_matching_scope /\ ~cand_2_matching_scope THEN 1
    ELSE IF cand_2_matching_scope /\ ~cand_1_matching_scope THEN -1
    ELSE IF cand_1_matching_label /\ ~cand_2_matching_label THEN 1
    ELSE IF cand_2_matching_label /\ ~cand_1_matching_label THEN -1
    ELSE IF cand_1_precedence > cand_2_precedence THEN 1
    ELSE IF cand_2_precedence > cand_1_precedence THEN -1
    ELSE IF cand_1_scope < cand_2_scope THEN 1
    ELSE IF cand_2_scope < cand_1_scope THEN -1
    ELSE 0

\* The comparator on stored addresses, as the sort applies it.
Cmp(x, y, S) == dns_compare_destination_address(MappedView(x), MappedView(y), S)

(***************************************************************************)
(* The sort (a bubble sort over adjacent pairs)                            *)
(***************************************************************************)
\* The test of the "Compare" step; list positions are 1-based here, so the
\* code's dest_index i is position i + 1.
SwapOnLessOrEqual(list, i, S) == Cmp(list[i + 1], list[i + 2], S) <= 0

ShouldSwap(list, i, S) == Cmp(list[i + 1], list[i + 2], S) < 0

\* The three assignments of the "Swap" step.
SwapWithoutTmp(list, i) == [list EXCEPT ![i + 1] = list[i + 2]]

SwapAt(list, i) == [list EXCEPT ![i + 1] = list[i + 2], ![i + 2] = list[i + 1]]

\* One iteration of the inner loop.
InnerStep(list, i, S) == IF ShouldSwap(list, i, S) THEN SwapAt(list, i) ELSE list

\* The inner loop's condition: dest_index < dest_addr_list_length - dest_sort_step - 1
InnerGuardShort(n, step, i) == i < n - step - 2

InnerGuard(n, step, i) == i < n - step - 1

\* The outer loop's condition: dest_sort_step < dest_addr_list_length - 1
OuterGuard(n, step) == step < n - 1

RECURSIVE SortFrom(_, _, _, _)
SortFrom(list, step, i, S) ==
  IF ~OuterGuard(Len(list), step) THEN list
  ELSE IF InnerGuard(Len(list), step, i) THEN SortFrom(InnerStep(list, i, S), step, i + 1, S)
  ELSE SortFrom(list, step + 1, 0, S)

lwip_sortdestinationaddresses(dest, srcs) ==
  IF Len(dest) <= 1 THEN dest ELSE SortFrom(dest, 0, 0, SourceSummary(srcs))

(***************************************************************************)
(* Inputs of the sort: the addresses of the RFC 6724 section 10.2 examples *)
(* and of the two regression cases of bug #65583                           *)
(***************************************************************************)
D_2001_db8_1__1 == IP6(<<\h2001, \h0DB8, 1, 0, 0, 0, 0, 1>>)
D_2001_db8_2__1 == IP6(<<\h2001, \h0DB8, 2, 0, 0, 0, 0, 1>>)
D_fe80__1 == IP6(<<\hFE80, 0, 0, 0, 0, 0, 0, 1>>)
D_fe80__1_zone == IP6Z(<<\hFE80, 0, 0, 0, 0, 0, 0, 1>>, 3)
D_2002_c633_6401__1 == IP6(<<\h2002, \hC633, \h6401, 0, 0, 0, 0, 1>>)
D_64_ff9b__c633_6479 == IP6(<<\h0064, \hFF9B, 0, 0, 0, 0, \hC633, \h6479>>)
D_198_51_100_121 == IP4(198, 51, 100, 121)
D_10_1_2_3 == IP4(10, 1, 2, 3)
\* An IPv4-mapped address stored as an IPv6 address.
D_mapped_198_51_100_121 == IP6(<<0, 0, 0, 0, 0, \hFFFF, \hC633, \h6479>>)

S_2001_db8_1__2 == IP6(<<\h2001, \h0DB8, 1, 0, 0, 0, 0, 2>>)
S_fe80__1 == IP6(<<\hFE80, 0, 0, 0, 0, 0, 0, 1>>)
S_fe80__2 == IP6(<<\hFE80, 0, 0, 0, 0, 0, 0, 2>>)
S_2002_c633_6401__2 == IP6(<<\h2002, \hC633, \h6401, 0, 0, 0, 0, 2>>)
S_fd00__2 == IP6(<<\hFD00, 0, 0, 0, 0, 0, 0, 2>>)
S_169_254_13_78 == IP4(169, 254, 13, 78)
S_198_51_100_117 == IP4(198, 51, 100, 117)
S_10_1_2_4 == IP4(10, 1, 2, 4)
S_mapped_198_51_100_117 == IP6(<<0, 0, 0, 0, 0, \hFFFF, \hC633, \h6475>>)

\* The largest destination list the sort is given.
MaxDest == 3

DestPool ==
  {D_2001_db8_1__1, D_2001_db8_2__1, D_fe80__1, D_fe80__1_zone, D_2002_c633_6401__1,
   D_64_ff9b__c633_6479, D_198_51_100_121, D_10_1_2_3, D_mapped_198_51_100_121}

DestLists == UNION {[1..n -> DestPool] : n \in 0..MaxDest}

\* Sources of examples 1, 2, 3, 4 (and both regression cases) and 9.
Src_ex1 == <<S_2001_db8_1__2, S_fe80__1, S_169_254_13_78>>
Src_ex2 == <<S_fe80__1, S_198_51_100_117>>
Src_ex3 == <<S_2001_db8_1__2, S_fe80__1, S_10_1_2_4>>
Src_ex4 == <<S_2001_db8_1__2, S_fe80__2>>
Src_ex9 == <<S_2002_c633_6401__2, S_2001_db8_1__2, S_fe80__2>>

SrcLists ==
  {Src_ex1, Src_ex2, Src_ex3, Src_ex4, Src_ex9,
   <<>>, <<S_10_1_2_4>>, <<S_fd00__2, S_169_254_13_78>>,
   <<S_2002_c633_6401__2, S_mapped_198_51_100_117>>}

(***************************************************************************)
(* lwip_getaddrinfo: strings, the service number, the argument checks      *)
(***************************************************************************)
\* A C string argument: NULL, or its characters (one-character strings).
NullStr == [null |-> TRUE, s |-> <<>>]

Str(chars) == [null |-> FALSE, s |-> chars]

DigitVal ==
  ("0" :> 0) @@ ("1" :> 1) @@ ("2" :> 2) @@ ("3" :> 3) @@ ("4" :> 4) @@
  ("5" :> 5) @@ ("6" :> 6) @@ ("7" :> 7) @@ ("8" :> 8) @@ ("9" :> 9)

isdigit(c) == c \in DOMAIN DigitVal

isspace(c) == c = " "

\* servname[0]; the terminating NUL of an empty string is "NUL".
FirstChar(s) == IF Len(s) = 0 THEN "NUL" ELSE s[1]

RECURSIVE SkipSpaces(_, _)
SkipSpaces(s, k) == IF k <= Len(s) /\ isspace(s[k]) THEN SkipSpaces(s, k + 1) ELSE k

\* atoi's accumulator as two 16-bit halves of a 32-bit word, with a sticky
\* flag for a value that left the range of int.
AtoiDigit(v, d) ==
  LET lo10 == v.lo * 10 + d
      hi10 == v.hi * 10 + lo10 \div 65536
  IN [lo |-> lo10 % 65536, hi |-> hi10 % 65536, ovf |-> v.ovf \/ hi10 >= 32768]

RECURSIVE AtoiDigits(_, _, _)
AtoiDigits(s, k, v) ==
  IF k <= Len(s) /\ isdigit(s[k]) THEN AtoiDigits(s, k + 1, AtoiDigit(v, DigitVal[s[k]])) ELSE v

\* atoi(s): leading white space, an optional sign, then digits up to the first
\* other character. A value outside the range of int is undefined behaviour:
\* the result is then the value wrapped to 32 bits (strtol on a 64-bit long,
\* cast to int) or INT_MAX / INT_MIN (strtol clamping on a 32-bit long).
AtoiOutcomes(s) ==
  LET k0 == SkipSpaces(s, 1)
      signed == k0 <= Len(s) /\ s[k0] \in {"+", "-"}
      sign == IF signed /\ s[k0] = "-" THEN -1 ELSE 1
      v == AtoiDigits(s, IF signed THEN k0 + 1 ELSE k0, [lo |-> 0, hi |-> 0, ovf |-> FALSE])
      wrapped == IF v.hi >= 32768 THEN (v.hi - 65536) * 65536 + v.lo ELSE v.hi * 65536 + v.lo
  IN IF ~v.ovf THEN {sign * (v.hi * 65536 + v.lo)}
     ELSE {sign * wrapped, IF sign = 1 THEN 2147483647 ELSE -2147483647 - 1}

\* The values port_nr can hold after "port_nr = atoi(servname)" (0 when no
\* service was given).
PortOutcomes(servname) == IF servname.null THEN {0} ELSE AtoiOutcomes(servname.s)

\* The service checks.
ServiceCheck(servname, port_nr) ==
  IF servname.null THEN "OK"
  ELSE IF port_nr = 0 /\ FirstChar(servname.s) # "0" THEN "EAI_SERVICE"
  ELSE IF port_nr < 0 \/ port_nr > 65535 THEN "EAI_SERVICE"
  ELSE "OK"

NoHints == [null |-> TRUE, ai_family |-> "AF_UNSPEC", ai_flags |-> {}, ai_socktype |-> "0"]

\* ai_family as the function sets it from the hints.
FamilyOf(hints) == IF hints.null THEN "AF_UNSPEC" ELSE hints.ai_family

\* The checks of res, of the two names and of the family hint.
ArgCheck(a) ==
  IF ~a.res THEN "EAI_FAIL"
  ELSE IF a.nodename.null /\ a.servname.null THEN "EAI_NONAME"
  ELSE IF ~a.hints.null /\ a.hints.ai_family \notin {"AF_UNSPEC", "AF_INET", "AF_INET6"}
       THEN "EAI_FAMILY"
  ELSE "OK"

\* The same checks with the service parsed before the family hint is looked at.
ValidateServiceFirst(a, port_nr) ==
  IF ~a.res THEN "EAI_FAIL"
  ELSE IF a.nodename.null /\ a.servname.null THEN "EAI_NONAME"
  ELSE IF ServiceCheck(a.servname, port_nr) # "OK" THEN ServiceCheck(a.servname, port_nr)
  ELSE ArgCheck(a)

\* Everything the function checks before it looks at the node: the outcome is
\* "OK" or the value it returns.
Validate(a, port_nr) ==
  IF ArgCheck(a) # "OK" THEN ArgCheck(a) ELSE ServiceCheck(a.servname, port_nr)

\* The two bytes of the port stored low byte first.
PortLowByteFirst(port_nr) == <<port_nr % 256, (port_nr % 65536) \div 256>>

\* lwip_htons((u16_t)port_nr): the two bytes of the port as stored, high first.
lwip_htons(port_nr) == <<(port_nr % 65536) \div 256, port_nr % 256>>

(***************************************************************************)
(* lwip_getaddrinfo: node names, the resolver, the interfaces, the pool    *)
(***************************************************************************)
DNS_MAX_NAME_LENGTH == 256

\* The node names of the model; LongName stands for a name of
\* DNS_MAX_NAME_LENGTH + 1 characters.
HostName == "host.example"
LongName == "host.example.too.long"
Literal4 == "192.0.2.1"
Literal6 == "fe80::1%3"

NodeNames == {HostName, LongName, Literal4, Literal6}

\* A node name argument: NULL, or one of the names.
NullNode == [null |-> TRUE, s |-> ""]

Node(name) == [null |-> FALSE, s |-> name]

strlen(name) ==
  CASE name = HostName -> 12
    [] name = Literal4 -> 9
    [] name = Literal6 -> 9
    [] name = LongName -> DNS_MAX_NAME_LENGTH + 1

\* ipaddr_aton: the parsed address of a literal, or failure.
ipaddr_aton(name) ==
  CASE name = Literal4 -> [ok |-> TRUE, addr |-> IP4(192, 0, 2, 1)]
    [] name = Literal6 -> [ok |-> TRUE, addr |-> D_fe80__1_zone]
    [] OTHER -> [ok |-> FALSE, addr |-> IP4(0, 0, 0, 0)]

\* An addr_list slot nothing was written to.
Uninit == [type |-> "uninit", addr |-> <<>>, zone |-> 0]

IP4_ADDR_ANY == IP4(0, 0, 0, 0)
IP6_ADDR_ANY == IP6(<<0, 0, 0, 0, 0, 0, 0, 0>>)

\* ip_addr_set_any_val(is_ipv6, addr) and ip_addr_set_loopback_val(is_ipv6, addr)
ip_addr_set_any_val(is_ipv6) == IF is_ipv6 THEN IP6_ADDR_ANY ELSE IP4_ADDR_ANY

ip_addr_set_loopback_val(is_ipv6) ==
  IF is_ipv6 THEN IP6(<<0, 0, 0, 0, 0, 0, 0, 1>>) ELSE IP4(127, 0, 0, 1)

\* netconn_gethostbyname_addrtype: what a query of the given type can return.
AnswersV6 == {D_2001_db8_1__1, D_fe80__1_zone}
AnswersV4 == {D_198_51_100_121}

ResolverOutcomes(type) ==
  {[type |-> type, err |-> "ERR_VAL", addr |-> Uninit]} \cup
  {[type |-> type, err |-> "ERR_OK", addr |-> x] :
     x \in IF type = "NETCONN_DNS_IPV6" THEN AnswersV6 ELSE AnswersV4}

\* The interface table: per netif its IPv4 address and its IPv6 slots.
LWIP_IPV6_NUM_ADDRESSES == 3

MAX_CAND_SOURCE_ADDRESSES == (LWIP_IPV6_NUM_ADDRESSES + 1) * 6

Netif(ip4, ip6a, ip6b) == [ip_addr |-> ip4, ip6_addr |-> <<ip6a, ip6b, IP6_ADDR_ANY>>]

NetifTables ==
  {<<>>,
   <<Netif(S_198_51_100_117, S_fe80__1, IP6_ADDR_ANY)>>,
   <<Netif(IP4_ADDR_ANY, S_fe80__2, S_2001_db8_1__2)>>}

\* The collection loop over one netif: its IPv4 address, then its IPv6 slots.
CandidatesOf(netif) ==
  <<netif.ip_addr>> \o netif.ip6_addr

IsAnyAddress(ip) == IF ip.type = "V4" THEN ip = IP4_ADDR_ANY ELSE ip6_addr_isany(ip.addr)

RECURSIVE CollectFrom(_, _, _)
CollectFrom(cands, k, list) ==
  IF k > Len(cands) THEN list
  ELSE CollectFrom(cands, k + 1,
         IF ~IsAnyAddress(cands[k]) /\ Len(list) < MAX_CAND_SOURCE_ADDRESSES
         THEN Append(list, cands[k])
         ELSE list)

RECURSIVE AllCandidates(_, _)
AllCandidates(netifs, k) ==
  IF k > Len(netifs) THEN <<>> ELSE CandidatesOf(netifs[k]) \o AllCandidates(netifs, k + 1)

CollectSources(netifs) == CollectFrom(AllCandidates(netifs, 1), 1, <<>>)

\* dns_sort_destination_addresses on the first n slots of addr_list.
dns_sort_destination_addresses(list, n, netifs) ==
  IF n <= 1 THEN list
  ELSE lwip_sortdestinationaddresses(SubSeq(list, 1, n), CollectSources(netifs))
         \o SubSeq(list, n + 1, Len(list))

\* The error the two queries of the unspecified family leave in err.
DualErrKeepFirst(err, err2) == err

DualErr(err, err2) == IF err2 = "ERR_OK" THEN "ERR_OK" ELSE err

\* The query type of a single-family lookup.
SingleQueryType(ai_family) ==
  IF ai_family = "AF_INET" THEN "NETCONN_DNS_IPV4"
  ELSE IF ai_family = "AF_INET6" THEN "NETCONN_DNS_IPV6"
  ELSE "NETCONN_DNS_IPV4_IPV6"

\* The MEMP_NETDB pool: MEMP_NUM_NETDB elements, each free, held by this
\* call's result ("gai") or held by an earlier caller ("other").
MEMP_NUM_NETDB == 2

PoolIds == 1..MEMP_NUM_NETDB

\* memp_malloc(MEMP_NETDB): a free element, or NULL (0) when none is left.
memp_malloc(owner) ==
  IF \A i \in PoolIds : owner[i] # "free" THEN 0
  ELSE CHOOSE i \in PoolIds : owner[i] = "free" /\ \A j \in PoolIds : owner[j] = "free" => i <= j

\* memset(ai, 0, total_size)
ZeroInfo ==
  [ai_family |-> "0", ai_socktype |-> "0", ai_canonname |-> NullNode, ai_next |-> 0,
   sa |-> [family |-> "0", port |-> <<0, 0>>, addr |-> <<>>, scope_id |-> 0]]

\* One record as the build loop fills it.
FilledInfo(a, ip, port_nr, prev_ai) ==
  [ai_family |-> IF ip.type = "V6" THEN "AF_INET6" ELSE "AF_INET",
   ai_socktype |-> IF a.hints.null THEN "0" ELSE a.hints.ai_socktype,
   ai_canonname |-> a.nodename,
   ai_next |-> prev_ai,
   sa |-> IF ip.type = "V6"
          THEN [family |-> "AF_INET6", port |-> lwip_htons(port_nr), addr |-> ip.addr,
                scope_id |-> ip.zone]
          ELSE [family |-> "AF_INET", port |-> lwip_htons(port_nr), addr |-> ip.addr,
                scope_id |-> 0]]

(***************************************************************************)
(* State                                                                   *)
(***************************************************************************)
VARIABLES
  spc,                    \* position in lwip_sortdestinationaddresses
  dest_addr_list,         \* the list being sorted in place
  cand_source_addr_list,  \* the candidate sources
  source_flags,           \* the three has_*_flags masks
  dest_sort_step,
  dest_index,
  in_dest,                \* history: the list as it was passed in
  origin                  \* history: origin[k] is the input position of element k

VARIABLES
  pc,          \* position of the caller / of lwip_getaddrinfo / of lwip_freeaddrinfo
  args,        \* nodename, servname, hints, res (whether res is non-NULL)
  loc,         \* the locals of lwip_getaddrinfo
  out_res,     \* *res: 0 is NULL, -1 is the caller's value before the call
  ret,         \* the value lwip_getaddrinfo returned
  owner,       \* the MEMP_NETDB pool: who holds each element
  owner0,      \* history: the pool when lwip_getaddrinfo was called
  heap,        \* the contents of the pool's elements
  queries,     \* history: the resolver calls made, with their outcomes
  netif_list,  \* the interface table
  free_ai      \* lwip_freeaddrinfo's ai

sortvars ==
  <<spc, dest_addr_list, cand_source_addr_list, source_flags, dest_sort_step,
    dest_index, in_dest, origin>>

gaivars ==
  <<pc, args, loc, out_res, ret, owner, owner0, heap, queries, netif_list, free_ai>>

VARIABLES
  rpc,          \* position of the caller / of lwip_gethostbyname_r
  rargs,        \* name, ret, buf, buflen, result, h_errnop
  rloc,         \* the locals h, hostname, namelen, err
  result_val,   \* *result: -1 is the caller's value before the call, 0 NULL, 1 ret
  h_errno_val,  \* the caller's int behind h_errnop, and the local lh_errno
  rret,         \* the value lwip_gethostbyname_r returned
  ret_hostent,  \* *ret
  buf_helper,   \* the helper record and the name copy in buf
  rqueries      \* history: the number of resolver calls made

hostrvars ==
  <<rpc, rargs, rloc, result_val, h_errno_val, rret, ret_hostent, buf_helper, rqueries>>

VARIABLES
  hpc,             \* per thread: its position in lwip_gethostbyname
  hname,           \* per thread: the argument name
  haddr,           \* per thread: the local addr
  hret,            \* per thread: what its last call returned: -1 not yet, 0 NULL, else the entry
  s_hostent,       \* the static entry
  s_hostent_addr,  \* the static address
  s_hostname,      \* the static name buffer
  h_errno,         \* the global h_errno
  hcalls,          \* history: the number of calls made
  hclean,          \* history: per thread, no other thread wrote since its call began to fill
  hlast            \* history: the call that finished filling last, and whether anything was written since

hostvars ==
  <<hpc, hname, haddr, hret, s_hostent, s_hostent_addr, s_hostname, h_errno, hcalls,
    hclean, hlast>>

VARIABLES
  cpc,               \* position of the caller of the classifier and the comparator
  cand_dest_addr_1,  \* three candidate destinations, in IPv6 form
  cand_dest_addr_2,
  cand_dest_addr_3,
  csummary,          \* the three has_*_flags masks handed to the comparator
  cclass,            \* per candidate: what the classifier functions returned
  cres               \* what the comparator returned for the pairs 12, 21, 23, 13

cmpvars ==
  <<cpc, cand_dest_addr_1, cand_dest_addr_2, cand_dest_addr_3, csummary, cclass, cres>>

VARIABLES
  label_arg,         \* the u8_t label dns_precedence_for_label is called with
  precedence_ret     \* what it returned; -1 before it returns

precvars == <<label_arg, precedence_ret>>

VARIABLES
  kpc,                          \* position in dns_sort_destination_addresses
  if_table,                     \* the interface table NETIF_FOREACH walks
  dest_addr_list_length,        \* the length argument
  netif_index,                  \* which interface netif points to (1-based)
  if_addr_index,                \* the IPv6 slot index of the inner loop
  collected,                    \* cand_source_addr_list[0 .. count - 1]
  cand_source_addr_list_count,  \* the u8_t counter
  taken,                        \* history: <<interface, slot>> of each collected address
  reads                         \* history: how many addresses of interfaces were read

collectvars ==
  <<kpc, if_table, dest_addr_list_length, netif_index, if_addr_index, collected,
    cand_source_addr_list_count, taken, reads>>

\* What the steps of one function leave alone: the state of the others.
nongai == <<sortvars, hostrvars, hostvars, cmpvars, precvars, collectvars>>

nonsort == <<gaivars, hostrvars, hostvars, cmpvars, precvars, collectvars>>

nonhostr == <<sortvars, gaivars, hostvars, cmpvars, precvars, collectvars>>

nonhost == <<sortvars, gaivars, hostrvars, cmpvars, precvars, collectvars>>

noncmp == <<sortvars, gaivars, hostrvars, hostvars, precvars, collectvars>>

nonprec == <<sortvars, gaivars, hostrvars, hostvars, cmpvars, collectvars>>

noncollect == <<sortvars, gaivars, hostrvars, hostvars, cmpvars, precvars>>

vars == <<sortvars, gaivars, hostrvars, hostvars, cmpvars, precvars, collectvars>>

(***************************************************************************)
(* lwip_getaddrinfo and lwip_freeaddrinfo                                  *)
(***************************************************************************)
ServNames ==
  {<<"0">>, <<"8", "0">>, <<"6", "5", "5", "3", "5">>, <<"6", "5", "5", "3", "6">>,
   <<"8", "0", "a", "b", "c">>, <<"a", "b", "c">>, <<"0", "a", "b", "c">>,
   <<"-", "1">>, <<" ", "8", "0">>, <<>>,
   <<"4", "2", "9", "4", "9", "6", "7", "3", "7", "6">>}

HintsSet ==
  {NoHints} \cup
  {[null |-> FALSE, ai_family |-> f, ai_flags |-> fl, ai_socktype |-> "SOCK_STREAM"] :
     f \in {"AF_UNSPEC", "AF_INET", "AF_INET6", "AF_UNIX"},
     fl \in SUBSET {"AI_PASSIVE", "AI_NUMERICHOST"}}

ArgsSet ==
  [nodename : {NullNode} \cup {Node(n) : n \in NodeNames},
   servname : {NullStr} \cup {Str(s) : s \in ServNames},
   hints : HintsSet,
   res : BOOLEAN]

NoArgs == [nodename |-> NullNode, servname |-> NullStr, hints |-> NoHints, res |-> FALSE]

\* The locals as declared: addr_count = 0, ai = prev_ai = NULL, port_nr = 0.
InitLocals ==
  [addr_list |-> <<Uninit, Uninit>>, addr_count |-> 0, index |-> 0, ai |-> 0,
   prev_ai |-> 0, port_nr |-> 0, err |-> "unset", err2 |-> "unset"]

\* The pool with its first k elements held by earlier callers.
PoolWith(k) == [i \in PoolIds |-> IF i <= k THEN "other" ELSE "free"]

(***************************************************************************)
(* lwip_gethostbyname_r: sizes, arguments, the state before the call       *)
(***************************************************************************)
MEM_ALIGNMENT == 4

\* sizeof(struct gethostbyname_r_helper): two pointers, an ip_addr_t, a pointer.
SIZEOF_HELPER == 48

\* LWIP_MEM_ALIGN_BUFFER(size): room for size bytes at any alignment of the start.
LWIP_MEM_ALIGN_BUFFER(size) == size + MEM_ALIGNMENT - 1

\* LWIP_MEM_ALIGN(addr): addr rounded up to a multiple of MEM_ALIGNMENT.
LWIP_MEM_ALIGN(addr) == ((addr + MEM_ALIGNMENT - 1) \div MEM_ALIGNMENT) * MEM_ALIGNMENT

\* The buffer test with the room for aligning the start left out.
BufferTooSmallUnaligned(buflen, namelen) == buflen < SIZEOF_HELPER + namelen + 1

\* "buf can't hold the data needed + a copy of name"
BufferTooSmall(buflen, namelen) ==
  buflen < SIZEOF_HELPER + LWIP_MEM_ALIGN_BUFFER(namelen + 1)

\* netconn_gethostbyname: an error, or one address (IPv4 preferred, IPv6 when
\* the name has no IPv4 address).
HostOutcomes ==
  {[err |-> "ERR_VAL", addr |-> Uninit]} \cup
  {[err |-> "ERR_OK", addr |-> x] : x \in {D_198_51_100_121, D_2001_db8_1__1}}

\* The buffers of the model: NULL (0), or a start address at each alignment.
BufBase == 1000

BufAddrs == {0} \cup {BufBase + k : k \in 0..(MEM_ALIGNMENT - 1)}

\* Buffer lengths around the limit of each name, with and without the room
\* for aligning.
BufLens ==
  {0} \cup
  {SIZEOF_HELPER + strlen(n) + 1 + d : n \in {HostName, LongName},
                                      d \in {-1, 0, MEM_ALIGNMENT - 2, MEM_ALIGNMENT - 1}}

RArgsSet ==
  [name : {NullNode, Node(HostName), Node(LongName)},
   ret : BOOLEAN,
   buf : BufAddrs,
   buflen : BufLens,
   result : BOOLEAN,
   h_errnop : BOOLEAN]

NoRArgs ==
  [name |-> NullNode, ret |-> FALSE, buf |-> 0, buflen |-> 0, result |-> FALSE,
   h_errnop |-> FALSE]

NoRLocals == [h |-> 0, hostname |-> 0, namelen |-> 0, err |-> "unset"]

\* The caller's struct hostent before the call.
NoHostent == [filled |-> FALSE, h_name |-> "", h_addrtype |-> "0", h_addr |-> Uninit]

\* The caller's buffer before the call.
NoHelper == [addr |-> Uninit, hostname |-> "", last |-> 0]

HostRStart ==
  /\ rargs = NoRArgs
  /\ rloc = NoRLocals
  /\ result_val = -1
  /\ h_errno_val = [caller |-> "unset", lh_errno |-> "unset"]
  /\ rret = "none"
  /\ ret_hostent = NoHostent
  /\ buf_helper = NoHelper
  /\ rqueries = 0

HostROff == rpc = "off" /\ HostRStart

(***************************************************************************)
(* lwip_gethostbyname: threads, names, the statics before the first call   *)
(***************************************************************************)
NumThreads == 2

MaxCalls == 3

Threads == 1..NumThreads

\* The first DNS_MAX_NAME_LENGTH characters of LongName.
LongNameCut == "host.example.too.lon"

HostNames == {HostName, LongName}

\* strncpy(s_hostname, name, n); s_hostname[n] = 0: at most n characters.
strncpy(name, n) ==
  IF name = LongName /\ n < DNS_MAX_NAME_LENGTH + 1 THEN LongNameCut ELSE name

\* The static entry before the first call: zero.
ZeroHostent == [h_name |-> "", h_addrtype |-> "0", h_addr_list |-> "0"]

HostStart ==
  /\ hname = [t \in Threads |-> ""]
  /\ haddr = [t \in Threads |-> Uninit]
  /\ hret = [t \in Threads |-> -1]
  /\ s_hostent = ZeroHostent
  /\ s_hostent_addr = Uninit
  /\ s_hostname = ""
  /\ h_errno = "0"
  /\ hcalls = 0
  /\ hclean = [t \in Threads |-> FALSE]
  /\ hlast = [t |-> 0, name |-> "", addr |-> Uninit, quiet |-> FALSE]

HostOff == hpc = [t \in Threads |-> "off"] /\ HostStart

(***************************************************************************)
(* The classifier and the comparator called on their own: inputs           *)
(***************************************************************************)
\* Addresses in IPv6 form on both sides of every prefix the classifier tests.
ClassifierPool ==
  {<<0, 0, 0, 0, 0, 0, 0, 1>>,                    \* ::1
   <<0, 0, 0, 0, 0, 0, 0, 0>>,                    \* ::
   <<0, 0, 0, 0, 0, 0, 0, 2>>,                    \* ::2
   <<0, 0, 0, 0, 0, 0, \hC633, \h6479>>,          \* ::198.51.100.121
   <<0, 0, 0, 0, 0, \hFFFF, \hC633, \h6479>>,     \* ::ffff:198.51.100.121
   <<0, 0, 0, 0, 0, \hFFFF, \hA9FE, \h0D4E>>,     \* ::ffff:169.254.13.78
   <<0, 0, 0, 0, 0, \hFFFF, \h7F00, 1>>,          \* ::ffff:127.0.0.1
   <<0, 0, 0, 0, 0, \hFFFE, 0, 1>>,               \* ::fffe:0:1
   <<0, 0, 0, 0, 1, 0, 0, 1>>,                    \* ::1:0:0:1
   <<\h0064, \hFF9B, 0, 0, 0, 0, \hC633, \h6479>>, \* 64:ff9b::198.51.100.121
   <<\h2001, 0, \h4136, 0, 0, 0, 0, 1>>,          \* 2001:0:4136::1
   <<\h2001, 1, 0, 0, 0, 0, 0, 1>>,               \* 2001:1::1
   <<\h2001, \h0DB8, 1, 0, 0, 0, 0, 1>>,          \* 2001:db8:1::1
   <<\h2002, \hC633, \h6401, 0, 0, 0, 0, 1>>,     \* 2002:c633:6401::1
   <<\h2003, 0, 0, 0, 0, 0, 0, 1>>,               \* 2003::1
   <<\h3FFD, 0, 0, 0, 0, 0, 0, 1>>,               \* 3ffd::1
   <<\h3FFE, 0, 0, 0, 0, 0, 0, 1>>,               \* 3ffe::1
   <<\h3FFF, 0, 0, 0, 0, 0, 0, 1>>,               \* 3fff::1
   <<\hFBFF, 0, 0, 0, 0, 0, 0, 1>>,               \* fbff::1
   <<\hFC00, 0, 0, 0, 0, 0, 0, 1>>,               \* fc00::1
   <<\hFDFF, 0, 0, 0, 0, 0, 0, 1>>,               \* fdff::1
   <<\hFE00, 0, 0, 0, 0, 0, 0, 1>>,               \* fe00::1
   <<\hFE80, 0, 0, 0, 0, 0, 0, 1>>,               \* fe80::1
   <<\hFEBF, 0, 0, 0, 0, 0, 0, 1>>,               \* febf::1
   <<\hFEC0, 0, 0, 0, 0, 0, 0, 1>>,               \* fec0::1
   <<\hFEFF, 0, 0, 0, 0, 0, 0, 1>>,               \* feff::1
   <<\hFF02, 0, 0, 0, 0, 0, 0, 1>>,               \* ff02::1
   <<\hFF05, 0, 0, 0, 0, 0, 0, 1>>,               \* ff05::1
   <<\hFF0E, 0, 0, 0, 0, 0, 0, 1>>,               \* ff0e::1
   <<\hFF00, 0, 0, 0, 0, 0, 0, 1>>,               \* ff00::1
   <<\hFFFF, 0, 0, 0, 0, 0, 0, 1>>,               \* ffff::1
   <<\hFEFF, \hFF00, 0, 0, 0, 0, 0, 1>>,          \* feff:ff00::1
   <<0, 0, 0, 0, 0, 0, \hA9FE, \h0D4E>>,          \* ::169.254.13.78
   <<0, 0, 0, 0, 0, \hFFFF, \hA9FD, \hFFFF>>,     \* ::ffff:169.253.255.255
   <<0, 0, 0, 0, 0, \hFFFF, \hA9FF, 0>>,          \* ::ffff:169.255.0.0
   <<0, 0, 0, 0, 0, \hFFFF, \h7EFF, \hFFFF>>,     \* ::ffff:126.255.255.255
   <<0, 0, 0, 0, 0, \hFFFF, \h7FFF, \hFFFF>>,     \* ::ffff:127.255.255.255
   <<0, 0, 0, 0, 0, \hFFFF, \h8000, 0>>}          \* ::ffff:128.0.0.0

\* The second and third candidate: one address of each label and scope.
ComparatorPool ==
  {<<0, 0, 0, 0, 0, 0, 0, 1>>,
   <<0, 0, 0, 0, 0, 0, 0, 2>>,
   <<0, 0, 0, 0, 0, \hFFFF, \hC633, \h6479>>,
   <<0, 0, 0, 0, 0, \hFFFF, \hA9FE, \h0D4E>>,
   <<\h2001, 0, \h4136, 0, 0, 0, 0, 1>>,
   <<\h2001, \h0DB8, 1, 0, 0, 0, 0, 1>>,
   <<\h2001, \h0DB8, 2, 0, 0, 0, 0, 1>>,
   <<\h2002, \hC633, \h6401, 0, 0, 0, 0, 1>>,
   <<\h3FFE, 0, 0, 0, 0, 0, 0, 1>>,
   <<\hFD00, 0, 0, 0, 0, 0, 0, 1>>,
   <<\hFE80, 0, 0, 0, 0, 0, 0, 1>>,
   <<\hFEC0, 0, 0, 0, 0, 0, 0, 1>>,
   <<\hFF05, 0, 0, 0, 0, 0, 0, 1>>}

NoClass == [scope |-> -1, matching_scope |-> FALSE, label |-> -1, matching_label |-> FALSE,
            precedence |-> -1]

CmpStart ==
  /\ cclass = <<NoClass, NoClass, NoClass>>
  /\ cres = [r12 |-> 0, r21 |-> 0, r23 |-> 0, r13 |-> 0]

CmpOff ==
  /\ cpc = "off"
  /\ cand_dest_addr_1 = <<>>
  /\ cand_dest_addr_2 = <<>>
  /\ cand_dest_addr_3 = <<>>
  /\ csummary = NoSources
  /\ CmpStart

(***************************************************************************)
(* dns_precedence_for_label called on its own: inputs                      *)
(***************************************************************************)
\* The values of a u8_t.
Labels == 0..255

PrecOff ==
  /\ label_arg = 0
  /\ precedence_ret = -1

(***************************************************************************)
(* dns_sort_destination_addresses walking the interface table: inputs      *)
(***************************************************************************)
\* The most interfaces a table holds.
MaxNetifs == 7

\* Three interfaces: every address set, in three IPv6 address states; no
\* IPv4 address and the middle IPv6 slot empty; no address at all.
NetifFull ==
  [ip_addr |-> S_198_51_100_117,
   ip6_addr |-> <<S_fe80__1, S_2001_db8_1__2, S_fd00__2>>,
   ip6_addr_state |-> <<"PREFERRED", "TENTATIVE", "DEPRECATED">>]

NetifSparse ==
  [ip_addr |-> IP4_ADDR_ANY,
   ip6_addr |-> <<S_fe80__2, IP6_ADDR_ANY, S_2001_db8_1__2>>,
   ip6_addr_state |-> <<"TENTATIVE", "INVALID", "PREFERRED">>]

NetifBlank ==
  [ip_addr |-> IP4_ADDR_ANY,
   ip6_addr |-> <<IP6_ADDR_ANY, IP6_ADDR_ANY, IP6_ADDR_ANY>>,
   ip6_addr_state |-> <<"INVALID", "INVALID", "INVALID">>]

IfTables == UNION {[1..n -> {NetifFull, NetifSparse, NetifBlank}] : n \in 0..MaxNetifs}

\* The collector's own test with the bound left out.
CollectsUnbounded(ip, count) == ~IsAnyAddress(ip)

\* The test of both "if"s of the collection loop.
Collects(ip, count) == ~IsAnyAddress(ip) /\ count < MAX_CAND_SOURCE_ADDRESSES

CollectStart ==
  /\ netif_index = 0
  /\ if_addr_index = 0
  /\ collected = <<>>
  /\ cand_source_addr_list_count = 0
  /\ taken = <<>>
  /\ reads = 0

CollectOff ==
  /\ kpc = "off"
  /\ if_table = <<>>
  /\ dest_addr_list_length = 0
  /\ CollectStart

GaiOff ==
  /\ pc = "off"
  /\ args = NoArgs
  /\ loc = InitLocals
  /\ out_res = -1
  /\ ret = "none"
  /\ owner = PoolWith(0)
  /\ owner0 = PoolWith(0)
  /\ heap = [i \in PoolIds |-> ZeroInfo]
  /\ queries = <<>>
  /\ netif_list = <<>>
  /\ free_ai = 0

SortOff ==
  /\ spc = "off"
  /\ in_dest = <<>>
  /\ dest_addr_list = <<>>
  /\ cand_source_addr_list = <<>>
  /\ source_flags = NoSources
  /\ dest_sort_step = 0
  /\ dest_index = 0
  /\ origin = <<>>

Init ==
  /\ SortOff
  /\ HostROff
  /\ HostOff
  /\ CmpOff
  /\ PrecOff
  /\ CollectOff
  /\ pc = "idle"
  /\ args = NoArgs
  /\ loc = InitLocals
  /\ out_res = -1
  /\ ret = "none"
  /\ \E k \in 0..MEMP_NUM_NETDB : owner = PoolWith(k) /\ owner0 = PoolWith(k)
  /\ heap = [i \in PoolIds |-> ZeroInfo]
  /\ queries = <<>>
  /\ netif_list \in NetifTables
  /\ free_ai = 0

\* *res as the entry leaves it, with the store to *res left out.
KeepRes(a, old) == old

\* *res as the entry leaves it: "*res = NULL" once res is known to be non-NULL.
ClearRes(a, old) == IF a.res THEN 0 ELSE old

\* "return e": the function is left with value e and locals l.
Return(e, l) ==
  /\ pc' = "returned"
  /\ ret' = e
  /\ loc' = l

\* From the name length check to the start of the build loop.
Prepare(a, l) ==
  IF ~a.nodename.null /\ strlen(a.nodename.s) > DNS_MAX_NAME_LENGTH
  THEN Return("EAI_FAIL", l)
  ELSE /\ pc' = "build"
       /\ loc' = [l EXCEPT !.index = l.addr_count - 1]
       /\ UNCHANGED ret

\* The NUMERICHOST branch without the cross-check against the family hint.
NumericHostAnyFamily(a, l) ==
  LET parsed == ipaddr_aton(a.nodename.s)
  IN IF ~parsed.ok THEN Return("EAI_NONAME", l)
     ELSE Prepare(a, [l EXCEPT !.addr_list[1] = parsed.addr, !.addr_count = 1])

\* The NUMERICHOST branch.
NumericHost(a, l) ==
  LET parsed == ipaddr_aton(a.nodename.s)
      l1 == [l EXCEPT !.addr_list[1] = parsed.addr, !.addr_count = 1]
  IN IF ~parsed.ok THEN Return("EAI_NONAME", l)
     ELSE IF \/ parsed.addr.type = "V6" /\ FamilyOf(a.hints) = "AF_INET"
             \/ parsed.addr.type = "V4" /\ FamilyOf(a.hints) = "AF_INET6"
          THEN Return("EAI_NONAME", l1)
     ELSE Prepare(a, l1)

\* The branch of a NULL node with the AI_PASSIVE flag not looked at.
LocalAddressLoopbackOnly(a, l) ==
  Prepare(a, [l EXCEPT !.addr_list[1] = ip_addr_set_loopback_val(FamilyOf(a.hints) = "AF_INET6"),
                       !.addr_count = 1])

\* The branch of a NULL node: the wildcard or the loopback address.
LocalAddress(a, l) ==
  LET is_ipv6 == FamilyOf(a.hints) = "AF_INET6"
      addr == IF ~a.hints.null /\ "AI_PASSIVE" \in a.hints.ai_flags
              THEN ip_addr_set_any_val(is_ipv6)
              ELSE ip_addr_set_loopback_val(is_ipv6)
  IN Prepare(a, [l EXCEPT !.addr_list[1] = addr, !.addr_count = 1])

\* The call, up to its first resolver query or to the build loop.
GaiCall ==
  /\ pc = "idle"
  /\ \E a \in ArgsSet : \E p \in PortOutcomes(a.servname) :
       LET l == IF ~a.res \/ (a.nodename.null /\ a.servname.null)
                   \/ ArgCheck(a) # "OK" \/ a.servname.null
                THEN InitLocals
                ELSE [InitLocals EXCEPT !.port_nr = p]
       IN /\ args' = a
          /\ out_res' = ClearRes(a, out_res)
          /\ IF Validate(a, p) # "OK" THEN Return(Validate(a, p), l)
             ELSE IF a.nodename.null THEN LocalAddress(a, l)
             ELSE IF ~a.hints.null /\ "AI_NUMERICHOST" \in a.hints.ai_flags
                  THEN NumericHost(a, l)
             ELSE IF FamilyOf(a.hints) = "AF_UNSPEC"
                  THEN pc' = "query6" /\ loc' = l /\ UNCHANGED ret
             ELSE pc' = "query1" /\ loc' = l /\ UNCHANGED ret
  /\ UNCHANGED <<owner, owner0, heap, queries, netif_list, free_ai>>
  /\ UNCHANGED nongai

\* One netconn_gethostbyname_addrtype call into addr_list[addr_count].
StoreAnswer(l, r) ==
  IF r.err = "ERR_OK"
  THEN [l EXCEPT !.addr_list[l.addr_count + 1] = r.addr, !.addr_count = l.addr_count + 1]
  ELSE l

\* Unspecified family: the IPv6 query.
GaiQuery6 ==
  /\ pc = "query6"
  /\ \E r \in ResolverOutcomes("NETCONN_DNS_IPV6") :
       /\ queries' = Append(queries, r)
       /\ loc' = [StoreAnswer(loc, r) EXCEPT !.err = r.err]
  /\ pc' = "query4"
  /\ UNCHANGED <<args, out_res, ret, owner, owner0, heap, netif_list, free_ai>>
  /\ UNCHANGED nongai

\* Unspecified family: the IPv4 query, and the test of the two errors.
GaiQuery4 ==
  /\ pc = "query4"
  /\ \E r \in ResolverOutcomes("NETCONN_DNS_IPV4") :
       LET l == [StoreAnswer(loc, r) EXCEPT !.err2 = r.err, !.err = DualErr(loc.err, r.err)]
       IN /\ queries' = Append(queries, r)
          /\ IF l.err # "ERR_OK" THEN Return("EAI_FAIL", l)
             ELSE pc' = "sort" /\ loc' = l /\ UNCHANGED ret
  /\ UNCHANGED <<args, out_res, owner, owner0, heap, netif_list, free_ai>>
  /\ UNCHANGED nongai

\* Unspecified family: dns_sort_destination_addresses, then on to the build.
GaiSort ==
  /\ pc = "sort"
  /\ Prepare(args, [loc EXCEPT !.addr_list =
                      dns_sort_destination_addresses(loc.addr_list, loc.addr_count, netif_list)])
  /\ UNCHANGED <<args, out_res, owner, owner0, heap, queries, netif_list, free_ai>>
  /\ UNCHANGED nongai

\* A given family: the single query.
GaiQuery1 ==
  /\ pc = "query1"
  /\ \E r \in ResolverOutcomes(SingleQueryType(FamilyOf(args.hints))) :
       LET l == [loc EXCEPT !.err = r.err,
                            !.addr_list[1] = IF r.err = "ERR_OK" THEN r.addr ELSE @,
                            !.addr_count = 1]
       IN /\ queries' = Append(queries, r)
          /\ IF l.err # "ERR_OK" THEN Return("EAI_FAIL", l) ELSE Prepare(args, l)
  /\ UNCHANGED <<args, out_res, owner, owner0, heap, netif_list, free_ai>>
  /\ UNCHANGED nongai

\* One iteration of the build loop.
GaiBuild ==
  /\ pc = "build"
  /\ loc.index >= 0
  /\ LET ai == memp_malloc(owner) IN
       IF ai = 0
       THEN /\ Return("EAI_MEMORY", [loc EXCEPT !.ai = 0])
            /\ UNCHANGED <<owner, heap>>
       ELSE /\ owner' = [owner EXCEPT ![ai] = "gai"]
            /\ heap' = [heap EXCEPT ![ai] = FilledInfo(args, loc.addr_list[loc.index + 1],
                                                       loc.port_nr, loc.prev_ai)]
            /\ loc' = [loc EXCEPT !.ai = ai, !.index = loc.index - 1]
            /\ UNCHANGED <<pc, ret>>
  /\ UNCHANGED <<args, out_res, owner0, queries, netif_list, free_ai>>
  /\ UNCHANGED nongai

\* The build loop ends: *res = ai; return 0.
GaiFinish ==
  /\ pc = "build"
  /\ loc.index < 0
  /\ out_res' = loc.ai
  /\ Return("0", loc)
  /\ UNCHANGED <<args, owner, owner0, heap, queries, netif_list, free_ai>>
  /\ UNCHANGED nongai

\* The caller hands what it was given in *res (NULL when it gave no res) to
\* lwip_freeaddrinfo.
FreeCall ==
  /\ pc = "returned"
  /\ free_ai' = IF args.res THEN out_res ELSE 0
  /\ pc' = "free"
  /\ UNCHANGED <<args, loc, out_res, ret, owner, owner0, heap, queries, netif_list>>
  /\ UNCHANGED nongai

\* One iteration of lwip_freeaddrinfo's loop.
FreeStep ==
  /\ pc = "free"
  /\ free_ai # 0
  /\ owner' = [owner EXCEPT ![free_ai] = "free"]
  /\ free_ai' = heap[free_ai].ai_next
  /\ UNCHANGED <<pc, args, loc, out_res, ret, owner0, heap, queries, netif_list>>
  /\ UNCHANGED nongai

\* lwip_freeaddrinfo returns.
FreeReturn ==
  /\ pc = "free"
  /\ free_ai = 0
  /\ pc' = "done"
  /\ UNCHANGED <<args, loc, out_res, ret, owner, owner0, heap, queries, netif_list, free_ai>>
  /\ UNCHANGED nongai

Next ==
  \/ GaiCall \/ GaiQuery6 \/ GaiQuery4 \/ GaiSort \/ GaiQuery1
  \/ GaiBuild \/ GaiFinish \/ FreeCall \/ FreeStep \/ FreeReturn

Spec == Init /\ [][Next]_vars

(***************************************************************************)
(* lwip_gethostbyname_r                                                    *)
(***************************************************************************)
HostRInit ==
  /\ SortOff
  /\ GaiOff
  /\ HostOff
  /\ CmpOff
  /\ PrecOff
  /\ CollectOff
  /\ rpc = "idle"
  /\ HostRStart

\* "*h_errnop = e": to the caller's int, or to lh_errno when h_errnop was NULL.
SetErrno(a, e) ==
  IF a.h_errnop THEN [h_errno_val EXCEPT !.caller = e] ELSE [h_errno_val EXCEPT !.lh_errno = e]

\* "*h_errnop = e; return -1"
RFail(a, e) ==
  /\ h_errno_val' = SetErrno(a, e)
  /\ rret' = "-1"
  /\ rpc' = "returned"

\* The call, up to the resolver query.
RCall ==
  /\ rpc = "idle"
  /\ \E a \in RArgsSet :
       /\ rargs' = a
       /\ IF ~a.result
          THEN RFail(a, "EINVAL") /\ UNCHANGED <<result_val, rloc>>
          ELSE /\ result_val' = 0
               /\ IF a.name.null \/ ~a.ret \/ a.buf = 0
                  THEN RFail(a, "EINVAL") /\ UNCHANGED rloc
                  ELSE IF BufferTooSmall(a.buflen, strlen(a.name.s))
                  THEN /\ RFail(a, "ERANGE")
                       /\ rloc' = [rloc EXCEPT !.namelen = strlen(a.name.s)]
                  ELSE /\ rloc' = [rloc EXCEPT !.namelen = strlen(a.name.s),
                                               !.h = LWIP_MEM_ALIGN(a.buf),
                                               !.hostname = LWIP_MEM_ALIGN(a.buf) + SIZEOF_HELPER]
                       /\ rpc' = "query"
                       /\ UNCHANGED <<h_errno_val, rret>>
  /\ UNCHANGED <<ret_hostent, buf_helper, rqueries>>
  /\ UNCHANGED nonhostr

\* netconn_gethostbyname(name, &h->addr), and the return on its failure.
RQuery ==
  /\ rpc = "query"
  /\ rqueries' = rqueries + 1
  /\ \E r \in HostOutcomes :
       /\ rloc' = [rloc EXCEPT !.err = r.err]
       /\ IF r.err # "ERR_OK"
          THEN RFail(rargs, "HOST_NOT_FOUND") /\ UNCHANGED buf_helper
          ELSE /\ buf_helper' = [buf_helper EXCEPT !.addr = r.addr]
               /\ rpc' = "fill"
               /\ UNCHANGED <<h_errno_val, rret>>
  /\ UNCHANGED <<rargs, result_val, ret_hostent>>
  /\ UNCHANGED nonhostr

\* The name copy, the entry, "*result = ret; return 0".
RFill ==
  /\ rpc = "fill"
  /\ buf_helper' = [buf_helper EXCEPT !.hostname = rargs.name.s,
                                      !.last = rloc.hostname + rloc.namelen]
  /\ ret_hostent' = [filled |-> TRUE, h_name |-> rargs.name.s, h_addrtype |-> "AF_INET",
                     h_addr |-> buf_helper.addr]
  /\ result_val' = 1
  /\ rret' = "0"
  /\ rpc' = "returned"
  /\ UNCHANGED <<rargs, rloc, h_errno_val, rqueries>>
  /\ UNCHANGED nonhostr

HostRNext == RCall \/ RQuery \/ RFill

SpecHostR == HostRInit /\ [][HostRNext]_vars

(***************************************************************************)
(* lwip_gethostbyname, called from several threads                         *)
(***************************************************************************)
HostInit ==
  /\ SortOff
  /\ GaiOff
  /\ HostROff
  /\ CmpOff
  /\ PrecOff
  /\ CollectOff
  /\ hpc = [t \in Threads |-> "idle"]
  /\ HostStart

\* A copy of the entry per thread, as sys_thread_hostent would return.
EntryPerThread(t) == 1 + t

\* What a successful call returns: 1 stands for &s_hostent, the one static entry.
EntryOf(t) == 1

\* A write to the statics by thread t: the other threads' calls are no longer
\* alone with the statics, and the last finished fill is no longer intact.
Wrote(t) ==
  /\ hclean' = [u \in Threads |-> IF u = t THEN hclean[t] ELSE FALSE]
  /\ hlast' = [hlast EXCEPT !.quiet = FALSE]

\* A thread calls lwip_gethostbyname(name).
HCall(t) ==
  /\ hpc[t] \in {"idle", "returned"}
  /\ hcalls < MaxCalls
  /\ hcalls' = hcalls + 1
  /\ \E n \in HostNames : hname' = [hname EXCEPT ![t] = n]
  /\ hpc' = [hpc EXCEPT ![t] = "query"]
  /\ hret' = [hret EXCEPT ![t] = -1]
  /\ hclean' = [hclean EXCEPT ![t] = FALSE]
  /\ UNCHANGED <<haddr, s_hostent, s_hostent_addr, s_hostname, h_errno, hlast>>
  /\ UNCHANGED nonhost

\* err = netconn_gethostbyname(name, &addr), and the return on its failure.
HQuery(t) ==
  /\ hpc[t] = "query"
  /\ \E r \in HostOutcomes :
       IF r.err # "ERR_OK"
       THEN /\ h_errno' = "HOST_NOT_FOUND"
            /\ hret' = [hret EXCEPT ![t] = 0]
            /\ hpc' = [hpc EXCEPT ![t] = "returned"]
            /\ UNCHANGED <<haddr, hclean>>
       ELSE /\ haddr' = [haddr EXCEPT ![t] = r.addr]
            /\ hpc' = [hpc EXCEPT ![t] = "fill_addr"]
            /\ hclean' = [hclean EXCEPT ![t] = TRUE]
            /\ UNCHANGED <<h_errno, hret>>
  /\ UNCHANGED <<hname, s_hostent, s_hostent_addr, s_hostname, hcalls, hlast>>
  /\ UNCHANGED nonhost

\* s_hostent_addr = addr; s_phostent_addr[0] = &s_hostent_addr; [1] = NULL
HFillAddr(t) ==
  /\ hpc[t] = "fill_addr"
  /\ s_hostent_addr' = haddr[t]
  /\ Wrote(t)
  /\ hpc' = [hpc EXCEPT ![t] = "fill_name"]
  /\ UNCHANGED <<hname, haddr, hret, s_hostent, s_hostname, h_errno, hcalls>>
  /\ UNCHANGED nonhost

\* strncpy(s_hostname, name, DNS_MAX_NAME_LENGTH); s_hostname[DNS_MAX_NAME_LENGTH] = 0
HFillName(t) ==
  /\ hpc[t] = "fill_name"
  /\ s_hostname' = strncpy(hname[t], DNS_MAX_NAME_LENGTH)
  /\ Wrote(t)
  /\ hpc' = [hpc EXCEPT ![t] = "fill_entry"]
  /\ UNCHANGED <<hname, haddr, hret, s_hostent, s_hostent_addr, h_errno, hcalls>>
  /\ UNCHANGED nonhost

\* The fields of s_hostent.
HFillEntry(t) ==
  /\ hpc[t] = "fill_entry"
  /\ s_hostent' = [h_name |-> "s_hostname", h_addrtype |-> "AF_INET",
                   h_addr_list |-> "s_phostent_addr"]
  /\ hclean' = [u \in Threads |-> IF u = t THEN hclean[t] ELSE FALSE]
  /\ hlast' = [t |-> t, name |-> hname[t], addr |-> haddr[t], quiet |-> TRUE]
  /\ hpc' = [hpc EXCEPT ![t] = "filled"]
  /\ UNCHANGED <<hname, haddr, hret, s_hostent_addr, s_hostname, h_errno, hcalls>>
  /\ UNCHANGED nonhost

\* return &s_hostent
HReturn(t) ==
  /\ hpc[t] = "filled"
  /\ hret' = [hret EXCEPT ![t] = EntryOf(t)]
  /\ hpc' = [hpc EXCEPT ![t] = "returned"]
  /\ UNCHANGED <<hname, haddr, s_hostent, s_hostent_addr, s_hostname, h_errno, hcalls,
                 hclean, hlast>>
  /\ UNCHANGED nonhost

HostNext ==
  \E t \in Threads :
    \/ HCall(t) \/ HQuery(t) \/ HFillAddr(t) \/ HFillName(t) \/ HFillEntry(t) \/ HReturn(t)

SpecHost == HostInit /\ [][HostNext]_vars

(***************************************************************************)
(* The classifier and the comparator called on their own                   *)
(***************************************************************************)
CmpInit ==
  /\ SortOff
  /\ GaiOff
  /\ HostROff
  /\ HostOff
  /\ PrecOff
  /\ CollectOff
  /\ cpc = "start"
  /\ cand_dest_addr_1 \in ClassifierPool
  /\ cand_dest_addr_2 \in ComparatorPool
  /\ cand_dest_addr_3 \in ComparatorPool
  /\ csummary \in {SourceSummary(srcs) : srcs \in SrcLists}
  /\ CmpStart

\* What the comparator computes of one candidate before it compares.
Classify(a, S) ==
  [scope |-> dns_addr_get_scope(a),
   matching_scope |-> MatchingScope(a, S),
   label |-> dns_get_precedence_label(a),
   matching_label |-> MatchingLabel(a, S),
   precedence |-> dns_precedence_for_label(dns_get_precedence_label(a))]

\* The classifier functions applied to the three candidates.
CmpClassify ==
  /\ cpc = "start"
  /\ cclass' = <<Classify(cand_dest_addr_1, csummary), Classify(cand_dest_addr_2, csummary),
                 Classify(cand_dest_addr_3, csummary)>>
  /\ cpc' = "classified"
  /\ UNCHANGED <<cand_dest_addr_1, cand_dest_addr_2, cand_dest_addr_3, csummary, cres>>
  /\ UNCHANGED noncmp

\* dns_compare_destination_address applied to the pairs.
CmpCompare ==
  /\ cpc = "classified"
  /\ cres' = [r12 |-> dns_compare_destination_address(cand_dest_addr_1, cand_dest_addr_2, csummary),
              r21 |-> dns_compare_destination_address(cand_dest_addr_2, cand_dest_addr_1, csummary),
              r23 |-> dns_compare_destination_address(cand_dest_addr_2, cand_dest_addr_3, csummary),
              r13 |-> dns_compare_destination_address(cand_dest_addr_1, cand_dest_addr_3, csummary)]
  /\ cpc' = "compared"
  /\ UNCHANGED <<cand_dest_addr_1, cand_dest_addr_2, cand_dest_addr_3, csummary, cclass>>
  /\ UNCHANGED noncmp

CmpNext == CmpClassify \/ CmpCompare

SpecCmp == CmpInit /\ [][CmpNext]_vars

(***************************************************************************)
(* dns_precedence_for_label called on its own                              *)
(***************************************************************************)
PrecInit ==
  /\ SortOff
  /\ GaiOff
  /\ HostROff
  /\ HostOff
  /\ CmpOff
  /\ CollectOff
  /\ label_arg \in Labels
  /\ precedence_ret = -1

\* The call and its return value.
PrecCall ==
  /\ precedence_ret = -1
  /\ precedence_ret' = dns_precedence_for_label(label_arg)
  /\ UNCHANGED label_arg
  /\ UNCHANGED nonprec

PrecNext == PrecCall

SpecPrec == PrecInit /\ [][PrecNext]_vars

(***************************************************************************)
(* dns_sort_destination_addresses, one address of an interface per step    *)
(***************************************************************************)
CollectInit ==
  /\ SortOff
  /\ GaiOff
  /\ HostROff
  /\ HostOff
  /\ CmpOff
  /\ PrecOff
  /\ kpc = "call"
  /\ if_table \in IfTables
  /\ dest_addr_list_length \in 0..2
  /\ CollectStart

\* Entry: the short circuit, or the first interface of NETIF_FOREACH.
CollectCall ==
  /\ kpc = "call"
  /\ IF dest_addr_list_length <= 1 THEN kpc' = "returned" /\ UNCHANGED netif_index
     ELSE IF Len(if_table) = 0 THEN kpc' = "sort" /\ UNCHANGED netif_index
     ELSE kpc' = "ip4" /\ netif_index' = 1
  /\ UNCHANGED <<if_table, dest_addr_list_length, if_addr_index, collected,
                 cand_source_addr_list_count, taken, reads>>
  /\ UNCHANGED noncollect

\* The IPv4 address of the interface.
CollectIp4 ==
  /\ kpc = "ip4"
  /\ LET ip_addr4 == if_table[netif_index].ip_addr IN
       IF Collects(ip_addr4, cand_source_addr_list_count)
       THEN /\ collected' = Append(collected, ip_addr4)
            /\ cand_source_addr_list_count' = cand_source_addr_list_count + 1
            /\ taken' = Append(taken, <<netif_index, 0>>)
       ELSE UNCHANGED <<collected, cand_source_addr_list_count, taken>>
  /\ reads' = reads + 1
  /\ if_addr_index' = 0
  /\ kpc' = "ip6"
  /\ UNCHANGED <<if_table, dest_addr_list_length, netif_index>>
  /\ UNCHANGED noncollect

\* One iteration of the loop over the IPv6 slots of the interface.
CollectIp6 ==
  /\ kpc = "ip6"
  /\ if_addr_index < LWIP_IPV6_NUM_ADDRESSES
  /\ LET ip_addr6 == if_table[netif_index].ip6_addr[if_addr_index + 1] IN
       IF Collects(ip_addr6, cand_source_addr_list_count)
       THEN /\ collected' = Append(collected, ip_addr6)
            /\ cand_source_addr_list_count' = cand_source_addr_list_count + 1
            /\ taken' = Append(taken, <<netif_index, if_addr_index + 1>>)
       ELSE UNCHANGED <<collected, cand_source_addr_list_count, taken>>
  /\ reads' = reads + 1
  /\ if_addr_index' = if_addr_index + 1
  /\ UNCHANGED <<kpc, if_table, dest_addr_list_length, netif_index>>
  /\ UNCHANGED noncollect

\* The slot loop ends: the next interface, or the end of the table.
CollectNextNetif ==
  /\ kpc = "ip6"
  /\ ~(if_addr_index < LWIP_IPV6_NUM_ADDRESSES)
  /\ IF netif_index < Len(if_table)
     THEN netif_index' = netif_index + 1 /\ kpc' = "ip4"
     ELSE UNCHANGED netif_index /\ kpc' = "sort"
  /\ UNCHANGED <<if_table, dest_addr_list_length, if_addr_index, collected,
                 cand_source_addr_list_count, taken, reads>>
  /\ UNCHANGED noncollect

\* The call of lwip_sortdestinationaddresses with the collected sources.
CollectSort ==
  /\ kpc = "sort"
  /\ kpc' = "returned"
  /\ UNCHANGED <<if_table, dest_addr_list_length, netif_index, if_addr_index, collected,
                 cand_source_addr_list_count, taken, reads>>
  /\ UNCHANGED noncollect

CollectNext == CollectCall \/ CollectIp4 \/ CollectIp6 \/ CollectNextNetif \/ CollectSort

SpecCollect == CollectInit /\ [][CollectNext]_vars

(***************************************************************************)
(* lwip_sortdestinationaddresses, one loop iteration per step              *)
(***************************************************************************)
SortInit ==
  /\ GaiOff
  /\ HostROff
  /\ HostOff
  /\ CmpOff
  /\ PrecOff
  /\ CollectOff
  /\ spc = "call"
  /\ in_dest \in DestLists
  /\ dest_addr_list = in_dest
  /\ cand_source_addr_list \in SrcLists
  /\ source_flags = NoSources
  /\ dest_sort_step = 0
  /\ dest_index = 0
  /\ origin = [k \in 1..Len(in_dest) |-> k]

\* Entry: the short circuit, or the summary loop over the sources.
SortEnter ==
  /\ spc = "call"
  /\ IF Len(dest_addr_list) <= 1
     THEN /\ spc' = "done"
          /\ UNCHANGED source_flags
     ELSE /\ spc' = "loop"
          /\ source_flags' = SourceSummary(cand_source_addr_list)
  /\ UNCHANGED <<dest_addr_list, cand_source_addr_list, dest_sort_step, dest_index,
                 in_dest, origin>>
  /\ UNCHANGED nonsort

\* One iteration of the inner loop: compare the pair at dest_index, swap.
SortCompare ==
  /\ spc = "loop"
  /\ OuterGuard(Len(dest_addr_list), dest_sort_step)
  /\ InnerGuard(Len(dest_addr_list), dest_sort_step, dest_index)
  /\ dest_addr_list' = InnerStep(dest_addr_list, dest_index, source_flags)
  /\ origin' = IF ShouldSwap(dest_addr_list, dest_index, source_flags)
               THEN [origin EXCEPT ![dest_index + 1] = origin[dest_index + 2],
                                   ![dest_index + 2] = origin[dest_index + 1]]
               ELSE origin
  /\ dest_index' = dest_index + 1
  /\ UNCHANGED <<spc, cand_source_addr_list, source_flags, dest_sort_step, in_dest>>
  /\ UNCHANGED nonsort

\* The inner loop ends: next pass.
SortNextPass ==
  /\ spc = "loop"
  /\ OuterGuard(Len(dest_addr_list), dest_sort_step)
  /\ ~InnerGuard(Len(dest_addr_list), dest_sort_step, dest_index)
  /\ dest_sort_step' = dest_sort_step + 1
  /\ dest_index' = 0
  /\ UNCHANGED <<spc, dest_addr_list, cand_source_addr_list, source_flags, in_dest, origin>>
  /\ UNCHANGED nonsort

\* The outer loop ends: return.
SortReturn ==
  /\ spc = "loop"
  /\ ~OuterGuard(Len(dest_addr_list), dest_sort_step)
  /\ spc' = "done"
  /\ UNCHANGED <<dest_addr_list, cand_source_addr_list, source_flags, dest_sort_step,
                 dest_index, in_dest, origin>>
  /\ UNCHANGED nonsort

SortNext == SortEnter \/ SortCompare \/ SortNextPass \/ SortReturn

SpecSort == SortInit /\ [][SortNext]_vars

(***************************************************************************)
(* Claims about the sort                                                   *)
(***************************************************************************)
\* The summary the comparator is given for the call's source list.
SummaryOfCall == SourceSummary(cand_source_addr_list)

\* C2: when lwip_sortdestinationaddresses has returned, the list is in
\* non-increasing preference: for all positions i < j the comparator, under the
\* summary of the given source list, does not prefer element j to element i.
C2_SortedOutput ==
  spc = "done" =>
    \A i \in 1..Len(dest_addr_list) : \A j \in 1..Len(dest_addr_list) :
      i < j => Cmp(dest_addr_list[i], dest_addr_list[j], SummaryOfCall) >= 0

\* A returned sort of a full-length list that had to move an element.
C2_Witness ==
  /\ spc = "done"
  /\ Len(dest_addr_list) = MaxDest
  /\ dest_addr_list # in_dest

\* The history variable names each element's input position.
OriginIsPermutation ==
  /\ Len(origin) = Len(in_dest)
  /\ \A k \in 1..Len(in_dest) : \E p \in 1..Len(origin) : origin[p] = k
  /\ \A p \in 1..Len(origin) : dest_addr_list[p] = in_dest[origin[p]]

\* C3: the sort is stable: two input elements that compare 0 under the source
\* summary come out in their input order.
C3_Stable ==
  spc = "done" =>
    /\ OriginIsPermutation
    /\ \A p \in 1..Len(origin) : \A q \in 1..Len(origin) :
         (/\ origin[p] < origin[q]
          /\ Cmp(in_dest[origin[p]], in_dest[origin[q]], SummaryOfCall) = 0) => p < q

\* A returned sort that moved an element past two elements that compare equal
\* and differ, so their order is observable.
C3_Witness ==
  /\ spc = "done"
  /\ dest_addr_list # in_dest
  /\ \E i \in 1..Len(in_dest) : \E j \in 1..Len(in_dest) :
       /\ i < j
       /\ in_dest[i] # in_dest[j]
       /\ Cmp(in_dest[i], in_dest[j], SummaryOfCall) = 0
       /\ \E k \in 1..Len(in_dest) : Cmp(in_dest[i], in_dest[k], SummaryOfCall) < 0

\* The seven scenarios: sources, destinations as listed, expected order.
Scenarios ==
  {[src |-> Src_ex1, dst |-> <<D_2001_db8_1__1, D_198_51_100_121>>,
    exp |-> <<D_2001_db8_1__1, D_198_51_100_121>>],
   [src |-> Src_ex2, dst |-> <<D_2001_db8_1__1, D_198_51_100_121>>,
    exp |-> <<D_198_51_100_121, D_2001_db8_1__1>>],
   [src |-> Src_ex3, dst |-> <<D_2001_db8_1__1, D_10_1_2_3>>,
    exp |-> <<D_2001_db8_1__1, D_10_1_2_3>>],
   [src |-> Src_ex4, dst |-> <<D_2001_db8_1__1, D_fe80__1>>,
    exp |-> <<D_fe80__1, D_2001_db8_1__1>>],
   [src |-> Src_ex9, dst |-> <<D_2002_c633_6401__1, D_2001_db8_1__1>>,
    exp |-> <<D_2001_db8_1__1, D_2002_c633_6401__1>>],
   [src |-> Src_ex4, dst |-> <<D_198_51_100_121, D_2001_db8_2__1>>,
    exp |-> <<D_2001_db8_2__1, D_198_51_100_121>>],
   [src |-> Src_ex4, dst |-> <<D_198_51_100_121, D_64_ff9b__c633_6479>>,
    exp |-> <<D_64_ff9b__c633_6479, D_198_51_100_121>>]}

Reversed(l) == [k \in 1..Len(l) |-> l[Len(l) + 1 - k]]

\* C4: each of the seven scenarios sorts to the expected order, from the
\* listed input order and from the reversed one.
C4_Scenarios ==
  spc = "done" =>
    \A sc \in Scenarios :
      (/\ cand_source_addr_list = sc.src
       /\ in_dest \in {sc.dst, Reversed(sc.dst)}) => dest_addr_list = sc.exp

\* A returned sort of a scenario given in the order that needs the swap.
C4_Witness ==
  /\ spc = "done"
  /\ \E sc \in Scenarios :
       /\ cand_source_addr_list = sc.src
       /\ in_dest = Reversed(sc.exp)
       /\ dest_addr_list = sc.exp

\* How many positions of list l hold x.
Count(l, x) == Cardinality({k \in 1..Len(l) : l[k] = x})

\* C5: the sort only permutes: at every step the list holds exactly the input
\* elements, each in its stored form (type, address, zone id), and a list of
\* length 0 or 1 is returned as it was passed.
C5_OnlyPermutes ==
  /\ Len(dest_addr_list) = Len(in_dest)
  /\ \A x \in DestPool : Count(dest_addr_list, x) = Count(in_dest, x)
  /\ (spc = "done" /\ Len(in_dest) <= 1) => dest_addr_list = in_dest

\* A returned sort that moved an IPv4 element and a zoned IPv6 element.
C5_Witness ==
  /\ spc = "done"
  /\ dest_addr_list # in_dest
  /\ \E k \in 1..Len(in_dest) :
       in_dest[k].type = "V4" /\ dest_addr_list[k] # in_dest[k]
  /\ \E k \in 1..Len(in_dest) :
       in_dest[k].zone # 0 /\ dest_addr_list[k] # in_dest[k]

(***************************************************************************)
(* Claims about lwip_getaddrinfo and lwip_freeaddrinfo                     *)
(***************************************************************************)
\* The records reached from p through ai_next.
RECURSIVE Walk(_, _)
Walk(p, fuel) == IF p = 0 \/ fuel = 0 THEN <<>> ELSE <<p>> \o Walk(heap[p].ai_next, fuel - 1)

ResultList == Walk(out_res, MEMP_NUM_NETDB + 1)

\* C1: when lwip_getaddrinfo returns 0, the list in *res holds one record per
\* answer in addr_list (addr_count records), in the order of addr_list, linked
\* through ai_next and ending in a null ai_next.
C1_ResultList ==
  (pc = "returned" /\ ret = "0") =>
    /\ Len(ResultList) = loc.addr_count
    /\ \A k \in 1..Len(ResultList) :
         /\ owner[ResultList[k]] = "gai"
         /\ k <= loc.addr_count => heap[ResultList[k]].sa.addr = loc.addr_list[k].addr

\* C6: after a successful lwip_getaddrinfo and lwip_freeaddrinfo(*res) the pool
\* holds what it held before the call; and lwip_freeaddrinfo(NULL), the call
\* made after a failure, releases nothing.
C6_FreeReleasesAll ==
  pc = "done" =>
    /\ ret = "0" => owner = owner0
    /\ \A i \in PoolIds : owner0[i] = "other" => owner[i] = "other"

\* C7: when lwip_getaddrinfo returns EAI_MEMORY, no record it allocated during
\* the call is still outstanding.
C7_MemoryFailureReleases ==
  (pc = "returned" /\ ret = "EAI_MEMORY") => owner = owner0

\* The value of a string of digits, capped above the port range.
RECURSIVE DecimalValue(_, _, _)
DecimalValue(s, k, acc) ==
  IF k > Len(s) THEN acc
  ELSE DecimalValue(s, k + 1, IF acc * 10 + DigitVal[s[k]] > 65535 THEN 65536
                              ELSE acc * 10 + DigitVal[s[k]])

\* s is a decimal integer in [0, 65535]: digits only, at least one.
IsDecimalPort(s) ==
  /\ Len(s) >= 1
  /\ \A k \in 1..Len(s) : isdigit(s[k])
  /\ DecimalValue(s, 1, 0) <= 65535

ValidFamilyHint == args.hints.null \/ args.hints.ai_family \in {"AF_UNSPEC", "AF_INET", "AF_INET6"}

\* C8: a call with a result pointer, a valid family hint and a service string
\* that is not a decimal integer in [0, 65535] returns EAI_SERVICE.
C8_ServiceRejected ==
  (/\ pc = "returned"
   /\ args.res
   /\ ValidFamilyHint
   /\ ~args.servname.null
   /\ ~IsDecimalPort(args.servname.s)) => ret = "EAI_SERVICE"

\* A call with a result pointer and hints naming a family that is none of
\* unspecified, v4, v6 has returned.
BadFamilyCall ==
  /\ pc = "returned"
  /\ args.res
  /\ ~args.hints.null
  /\ args.hints.ai_family \notin {"AF_UNSPEC", "AF_INET", "AF_INET6"}

\* C9 as claimed: such a call returns EAI_FAMILY whatever node and service are.
C9_AlwaysFamily == BadFamilyCall => ret = "EAI_FAMILY"

\* C9 as amended: such a call returns EAI_FAMILY whatever node and service are,
\* an invalid service string included, except that it returns EAI_NONAME when
\* node and service are both null.
C9_FamilyRejected ==
  BadFamilyCall =>
    ret = IF args.nodename.null /\ args.servname.null THEN "EAI_NONAME" ELSE "EAI_FAMILY"

\* A bad family given together with a service string that is no port number.
C9_Witness ==
  /\ BadFamilyCall
  /\ ~args.servname.null
  /\ ~IsDecimalPort(args.servname.s)
  /\ ~args.nodename.null
  /\ ret = "EAI_FAMILY"

\* The call passed the argument and service checks and resolves its node
\* through the resolver.
Resolving ==
  /\ ~args.nodename.null
  /\ ~(~args.hints.null /\ "AI_NUMERICHOST" \in args.hints.ai_flags)
  /\ ArgCheck(args) = "OK"
  /\ ServiceCheck(args.servname, loc.port_nr) = "OK"

Succeeded == {k \in 1..Len(queries) : queries[k].err = "ERR_OK"}

NameTooLong == ~args.nodename.null /\ strlen(args.nodename.s) > DNS_MAX_NAME_LENGTH

\* What C10 says of the queries and of the answers kept.
QueriesAsClaimed ==
  IF FamilyOf(args.hints) = "AF_UNSPEC"
  THEN /\ Len(queries) = 2
       /\ queries[1].type = "NETCONN_DNS_IPV6"
       /\ queries[2].type = "NETCONN_DNS_IPV4"
       /\ loc.addr_count = Cardinality(Succeeded)
       /\ {loc.addr_list[k] : k \in 1..loc.addr_count} = {queries[k].addr : k \in Succeeded}
  ELSE /\ Len(queries) = 1
       /\ queries[1].type = IF FamilyOf(args.hints) = "AF_INET6" THEN "NETCONN_DNS_IPV6"
                            ELSE "NETCONN_DNS_IPV4"

\* Before the sort the answers kept are in query order, IPv6 before IPv4.
KeptInQueryOrder ==
  pc = "sort" =>
    /\ loc.addr_count = Cardinality(Succeeded)
    /\ \A k \in 1..loc.addr_count : \A m \in 1..loc.addr_count :
         (k < m) => (loc.addr_list[k].type = "V6" /\ loc.addr_list[m].type = "V4")
    /\ {loc.addr_list[k] : k \in 1..loc.addr_count} = {queries[k].addr : k \in Succeeded}

\* C10 as claimed: with a node to resolve and an unspecified family both
\* queries are made, IPv6 then IPv4, the answers of the successful ones are
\* kept, and EAI_FAIL is returned if and only if both failed; with family v4
\* or v6 exactly one query of that family is made.
C10_FailIffBothFailed ==
  /\ KeptInQueryOrder
  /\ (pc = "returned" /\ Resolving) =>
       /\ QueriesAsClaimed
       /\ FamilyOf(args.hints) = "AF_UNSPEC" => (ret = "EAI_FAIL" <=> Succeeded = {})

\* C10 as amended: the same, but EAI_FAIL is returned if and only if both
\* queries failed or the node name is longer than DNS_MAX_NAME_LENGTH.
C10_DualQuery ==
  /\ KeptInQueryOrder
  /\ (pc = "returned" /\ Resolving) =>
       /\ QueriesAsClaimed
       /\ FamilyOf(args.hints) = "AF_UNSPEC" =>
            (ret = "EAI_FAIL" <=> (Succeeded = {} \/ NameTooLong))

\* An unspecified-family lookup whose IPv6 query failed and whose IPv4 query
\* succeeded has returned 0.
C10_Witness ==
  /\ pc = "returned"
  /\ Resolving
  /\ FamilyOf(args.hints) = "AF_UNSPEC"
  /\ Len(queries) = 2
  /\ queries[1].err # "ERR_OK"
  /\ queries[2].err = "ERR_OK"
  /\ ret = "0"


\* C11: when lwip_getaddrinfo was given a result pointer and returns an error
\* code, *res is null.
C11_ResNullOnError ==
  (pc = "returned" /\ args.res /\ ret # "0") => out_res = 0

\* The call failed with EAI_MEMORY after it had allocated a record.
C11_Witness ==
  /\ pc = "returned"
  /\ args.res
  /\ ret = "EAI_MEMORY"
  /\ \E i \in PoolIds : owner[i] = "gai"
  /\ out_res = 0

\* The call names a node and sets AI_NUMERICHOST.
NumericHostAsked ==
  /\ ~args.nodename.null
  /\ ~args.hints.null
  /\ "AI_NUMERICHOST" \in args.hints.ai_flags

\* The call passed the checks of res, the names, the family and the service.
PassedChecks ==
  /\ ArgCheck(args) = "OK"
  /\ ServiceCheck(args.servname, loc.port_nr) = "OK"

\* The parsed literal is of the family the hint excludes.
Contradicts(ip) ==
  \/ ip.type = "V6" /\ FamilyOf(args.hints) = "AF_INET"
  \/ ip.type = "V4" /\ FamilyOf(args.hints) = "AF_INET6"

\* The one record of the result list holds address ip.
OneRecordOf(ip) ==
  /\ Len(ResultList) = 1
  /\ heap[out_res].sa.addr = ip.addr
  /\ heap[out_res].sa.scope_id = ip.zone
  /\ heap[out_res].ai_family = IF ip.type = "V6" THEN "AF_INET6" ELSE "AF_INET"
  /\ heap[out_res].ai_next = 0

\* C12: with a node and AI_NUMERICHOST the resolver is never called; the call
\* returns EAI_NONAME when the node is no address literal or the literal's
\* family contradicts the hint family, and otherwise the one address it holds,
\* and returns on success, is the parsed literal.
C12_NumericHost ==
  NumericHostAsked =>
    /\ queries = <<>>
    /\ (pc = "returned" /\ PassedChecks) =>
         LET parsed == ipaddr_aton(args.nodename.s)
         IN IF ~parsed.ok \/ Contradicts(parsed.addr) THEN ret = "EAI_NONAME"
            ELSE /\ ret \in {"0", "EAI_MEMORY"}
                 /\ loc.addr_count = 1
                 /\ loc.addr_list[1] = parsed.addr
                 /\ ret = "0" => OneRecordOf(parsed.addr)

\* A literal of the family the hint excludes was refused.
C12_Witness ==
  /\ pc = "returned"
  /\ NumericHostAsked
  /\ PassedChecks
  /\ ipaddr_aton(args.nodename.s).ok
  /\ Contradicts(ipaddr_aton(args.nodename.s).addr)
  /\ ret = "EAI_NONAME"

\* The call has a result pointer, a valid family hint, no node and a service
\* that is a decimal port number.
NullNodeCall ==
  /\ args.res
  /\ ValidFamilyHint
  /\ args.nodename.null
  /\ ~args.servname.null
  /\ IsDecimalPort(args.servname.s)

\* The address C13 names for the hints of the call.
ExpectedLocal ==
  LET v6 == ~args.hints.null /\ args.hints.ai_family = "AF_INET6"
      passive == ~args.hints.null /\ "AI_PASSIVE" \in args.hints.ai_flags
  IN IF passive
     THEN (IF v6 THEN IP6(<<0, 0, 0, 0, 0, 0, 0, 0>>) ELSE IP4(0, 0, 0, 0))
     ELSE (IF v6 THEN IP6(<<0, 0, 0, 0, 0, 0, 0, 1>>) ELSE IP4(127, 0, 0, 1))

\* C13: with no node and a valid service the resolver is not called and the
\* call holds, and returns on success, exactly one address: the wildcard when
\* AI_PASSIVE is set and the loopback otherwise, IPv6 exactly when the hint
\* family is v6 and IPv4 when it is v4, unspecified or the hints are absent.
C13_LocalAddress ==
  NullNodeCall =>
    /\ queries = <<>>
    /\ pc = "returned" =>
         /\ ret \in {"0", "EAI_MEMORY"}
         /\ loc.addr_count = 1
         /\ loc.addr_list[1] = ExpectedLocal
         /\ ret = "0" => OneRecordOf(ExpectedLocal)

\* A passive v6 call with no node returned the IPv6 wildcard.
C13_Witness ==
  /\ pc = "returned"
  /\ NullNodeCall
  /\ ~args.hints.null
  /\ args.hints.ai_family = "AF_INET6"
  /\ "AI_PASSIVE" \in args.hints.ai_flags
  /\ ret = "0"
  /\ heap[out_res].ai_family = "AF_INET6"
  /\ heap[out_res].sa.addr = <<0, 0, 0, 0, 0, 0, 0, 0>>

\* The port read back from a record: ntohs of the two stored bytes.
PortOf(p) == heap[p].sa.port[1] * 256 + heap[p].sa.port[2]

\* C14: every record of a successful call carries, in network byte order, the
\* port its decimal service string names, and port 0 when no service was given.
C14_PortRoundTrip ==
  (pc = "returned" /\ ret = "0") =>
    \A k \in 1..Len(ResultList) :
      /\ args.servname.null => PortOf(ResultList[k]) = 0
      /\ (~args.servname.null /\ IsDecimalPort(args.servname.s)) =>
           /\ PortOf(ResultList[k]) = DecimalValue(args.servname.s, 1, 0)
           /\ heap[ResultList[k]].sa.port[1] = DecimalValue(args.servname.s, 1, 0) \div 256

\* A successful call with service "80" returned a record with bytes 0, 80.
C14_Witness ==
  /\ pc = "returned"
  /\ ret = "0"
  /\ ~args.servname.null
  /\ args.servname.s = <<"8", "0">>
  /\ Len(ResultList) = 1
  /\ heap[out_res].sa.port = <<0, 80>>

(***************************************************************************)
(* Claims about lwip_gethostbyname_r                                       *)
(***************************************************************************)
\* One of result, name, ret, buf is NULL.
NullArgument == ~rargs.result \/ rargs.name.null \/ ~rargs.ret \/ rargs.buf = 0

\* The buffer is shorter than the helper record plus the aligned copy of the
\* name with its NUL.
ShortBuffer ==
  rargs.buflen < SIZEOF_HELPER + ((strlen(rargs.name.s) + 1) + (MEM_ALIGNMENT - 1))

\* The error code where the caller, or the function, can see it.
ErrnoStored == IF rargs.h_errnop THEN h_errno_val.caller ELSE h_errno_val.lh_errno

\* C15: lwip_gethostbyname_r checks its arguments before it calls the
\* resolver: a NULL result, name, ret or buf gives -1 and EINVAL, a buffer
\* too short gives -1 and ERANGE, a resolver failure gives -1 and
\* HOST_NOT_FOUND; in each of these cases the entry is not filled and *result,
\* when there is one, is NULL; *result is ret exactly when the call returns 0.
C15_ArgsValidated ==
  /\ (rpc \notin {"off", "idle"} /\ (NullArgument \/ ShortBuffer)) => rqueries = 0
  /\ rpc = "returned" =>
       /\ NullArgument => (rret = "-1" /\ ErrnoStored = "EINVAL")
       /\ (~NullArgument /\ ShortBuffer) => (rret = "-1" /\ ErrnoStored = "ERANGE")
       /\ (~NullArgument /\ ~ShortBuffer /\ rloc.err # "ERR_OK") =>
            (rret = "-1" /\ ErrnoStored = "HOST_NOT_FOUND" /\ rqueries = 1)
       /\ rret = "-1" =>
            /\ rargs.result => result_val = 0
            /\ ret_hostent = NoHostent
       /\ (result_val = 1) <=> (rret = "0")
       /\ rret = "0" => (~NullArgument /\ ~ShortBuffer /\ rloc.err = "ERR_OK")

\* A buffer that holds the record and the name but not the room for aligning
\* was refused with ERANGE, all pointers given.
C15_Witness ==
  /\ rpc = "returned"
  /\ ~NullArgument
  /\ rargs.buflen >= SIZEOF_HELPER + strlen(rargs.name.s) + 1
  /\ rret = "-1"
  /\ ErrnoStored = "ERANGE"
  /\ result_val = 0

(***************************************************************************)
(* Claims about lwip_gethostbyname                                         *)
(***************************************************************************)
\* The name as the static buffer can hold it.
StoredName(name) == IF name = LongName THEN LongNameCut ELSE name

\* The static entry shows name and address.
EntryShows(name, addr) ==
  /\ s_hostent.h_name = "s_hostname"
  /\ s_hostent.h_addr_list = "s_phostent_addr"
  /\ s_hostname = StoredName(name)
  /\ s_hostent_addr = addr

\* C16 as claimed: once a successful call has filled the entry and nothing
\* was written since, the entry shows the name and the address of that call,
\* whether or not other calls ran interleaved with it.
C16_EntryOfOneCall ==
  (hlast.t # 0 /\ hlast.quiet) => EntryShows(hlast.name, hlast.addr)

\* What holds of the entry in every state.
SharedEntry ==
  /\ \A t \in Threads : \A u \in Threads :
       (hret[t] > 0 /\ hret[u] > 0) => hret[t] = hret[u]
  /\ \A t \in Threads :
       (hpc[t] \in {"filled", "returned"} /\ hret[t] # 0 /\ hclean[t]) =>
         EntryShows(hname[t], haddr[t])
  /\ \A t \in Threads : hret[t] = 0 => h_errno = "HOST_NOT_FOUND"

\* A failing call writes none of the statics.
FailureKeepsEntry ==
  \A t \in Threads :
    (hpc[t] = "query" /\ hret'[t] = 0) => UNCHANGED <<s_hostent, s_hostent_addr, s_hostname>>

\* C16 as amended: every successful call returns the same static entry; the
\* entry shows the name (as stored, at most DNS_MAX_NAME_LENGTH characters)
\* and the address of a successful call when no other call wrote to the
\* statics since that call began to fill them; a failed call returns NULL, sets
\* h_errno to HOST_NOT_FOUND and leaves the statics unchanged.
C16_SharedEntry == []SharedEntry /\ [][FailureKeepsEntry]_vars

\* Two threads hold the same entry, and it shows the later call's name and
\* address, not those of the call the other thread made.
C16_Witness ==
  \E t \in Threads : \E u \in Threads :
    /\ t # u
    /\ hpc[t] = "returned" /\ hpc[u] = "returned"
    /\ hret[t] > 0 /\ hret[t] = hret[u]
    /\ hclean[u]
    /\ hname[t] # hname[u] /\ haddr[t] # haddr[u]
    /\ EntryShows(hname[u], haddr[u])

(***************************************************************************)
(* C17: the comparator is the lexicographic comparison of the rule tuple   *)
(***************************************************************************)
Bit(b) == IF b THEN 1 ELSE 0

\* (matching_scope, matching_label, precedence, scope) of one classified
\* candidate, the scope negated so that in every component larger is better.
RuleTuple(c) == <<Bit(c.matching_scope), Bit(c.matching_label), c.precedence, 0 - c.scope>>

\* The sign of the first component from k on in which x and y differ.
RECURSIVE LexFrom(_, _, _)
LexFrom(x, y, k) ==
  IF k > Len(x) THEN 0
  ELSE IF x[k] > y[k] THEN 1
  ELSE IF x[k] < y[k] THEN -1
  ELSE LexFrom(x, y, k + 1)

LexCompare(c1, c2) == LexFrom(RuleTuple(c1), RuleTuple(c2), 1)

\* C17: for every pair of destinations and every source summary, the
\* comparator returns 1, -1 or 0 as the lexicographic comparison of
\* (matching_scope, matching_label, precedence, scope) says, larger preferred
\* in the first three components and smaller in the last: the first of rules
\* 2, 5, 6, 8 on which the two differ decides, and 0 means all four agree.
C17_Lexicographic ==
  cpc = "compared" =>
    /\ cres.r12 = LexCompare(cclass[1], cclass[2])
    /\ cres.r21 = LexCompare(cclass[2], cclass[1])
    /\ cres.r23 = LexCompare(cclass[2], cclass[3])
    /\ cres.r13 = LexCompare(cclass[1], cclass[3])
    /\ (cres.r12 = 0 <=> RuleTuple(cclass[1]) = RuleTuple(cclass[2]))

\* Two destinations that differ on rule 5 and, the other way round, on rule
\* 6 were compared, and rule 5 decided.
C17_Witness ==
  /\ cpc = "compared"
  /\ cclass[1].matching_scope = cclass[2].matching_scope
  /\ cclass[1].matching_label /\ ~cclass[2].matching_label
  /\ cclass[1].precedence < cclass[2].precedence
  /\ cres.r12 = 1

(***************************************************************************)
(* C18: the comparator is a total preorder                                 *)
(***************************************************************************)
\* C18: for a fixed source summary, comparing two destinations the other way
\* round negates the result, and when the first is at least as good as the
\* second and the second at least as good as the third, the first is at
\* least as good as the third.
C18_TotalPreorder ==
  cpc = "compared" =>
    /\ cres.r12 = 0 - cres.r21
    /\ (cres.r12 >= 0 /\ cres.r23 >= 0) => cres.r13 >= 0

\* Three different destinations were compared, the first tied with the
\* second and the second strictly better than the third.
C18_Witness ==
  /\ cpc = "compared"
  /\ cand_dest_addr_1 # cand_dest_addr_2
  /\ cres.r12 = 0
  /\ cres.r21 = 0
  /\ cres.r23 = 1
  /\ cres.r13 = 1

(***************************************************************************)
(* C19: scope matching is per family class                                 *)
(***************************************************************************)
\* The family class of an address: IPv4 or IPv4-mapped, against the rest.
V4Class(ip) ==
  \/ ip.type = "V4"
  \/ /\ \A k \in 1..5 : ip.addr[k] = 0
     /\ ip.addr[6] = \hFFFF

ScopeOf(ip) == dns_addr_get_scope(MappedView(ip))

\* Some candidate source of the call has the class and the scope of d.
HasSourceLike(d) ==
  \E j \in 1..Len(cand_source_addr_list) :
    /\ V4Class(cand_source_addr_list[j]) = V4Class(d)
    /\ ScopeOf(cand_source_addr_list[j]) = ScopeOf(d)

GlobalV6(ip) == ~V4Class(ip) /\ ScopeOf(ip) = IP6_MULTICAST_SCOPE_GLOBAL

\* The sort compares: the list has two destinations or more and the summary
\* loop has run.
Comparing == spc = "loop" \/ (spc = "done" /\ Len(in_dest) > 1)

\* C19: while a sort compares, rule 2 counts a destination as scope-matching
\* exactly when a candidate source of its family class (IPv4 or IPv4-mapped,
\* against all other IPv6) has its scope; and when no source is of the IPv4
\* class and a global IPv6 source is present, the returned list has every
\* global IPv6 destination before every destination of the IPv4 class,
\* whatever the input order was.
C19_ScopePerClass ==
  /\ Comparing =>
       \A k \in 1..Len(dest_addr_list) :
         MatchingScope(MappedView(dest_addr_list[k]), source_flags)
           <=> HasSourceLike(dest_addr_list[k])
  /\ ( /\ spc = "done"
       /\ \A j \in 1..Len(cand_source_addr_list) : ~V4Class(cand_source_addr_list[j])
       /\ \E j \in 1..Len(cand_source_addr_list) : GlobalV6(cand_source_addr_list[j]) )
     => \A i \in 1..Len(dest_addr_list) : \A j \in 1..Len(dest_addr_list) :
          (GlobalV6(dest_addr_list[i]) /\ V4Class(dest_addr_list[j])) => i < j

\* With IPv6 sources only, one of them global, a list that began with an
\* IPv4 destination was returned with a global IPv6 destination first.
C19_Witness ==
  /\ spc = "done"
  /\ Len(in_dest) > 1
  /\ \A j \in 1..Len(cand_source_addr_list) : ~V4Class(cand_source_addr_list[j])
  /\ \E j \in 1..Len(cand_source_addr_list) : GlobalV6(cand_source_addr_list[j])
  /\ in_dest[1].type = "V4"
  /\ GlobalV6(dest_addr_list[1])
  /\ \E j \in 1..Len(dest_addr_list) : V4Class(dest_addr_list[j])

(***************************************************************************)
(* C20: the label is that of the first, and of the longest, matching prefix *)
(***************************************************************************)
\* The default policy table of RFC 6724 section 2.1 (labels only), in the
\* order the claim lists the prefixes.
PolicyTable ==
  <<[prefix |-> <<0, 0, 0, 0, 0, 0, 0, 1>>, len |-> 128, label |-> 0],
    [prefix |-> <<0, 0, 0, 0, 0, \hFFFF, 0, 0>>, len |-> 96, label |-> 4],
    [prefix |-> <<0, 0, 0, 0, 0, 0, 0, 0>>, len |-> 96, label |-> 3],
    [prefix |-> <<\h2001, 0, 0, 0, 0, 0, 0, 0>>, len |-> 32, label |-> 5],
    [prefix |-> <<\h2002, 0, 0, 0, 0, 0, 0, 0>>, len |-> 16, label |-> 2],
    [prefix |-> <<\h3FFE, 0, 0, 0, 0, 0, 0, 0>>, len |-> 16, label |-> 12],
    [prefix |-> <<\hFEC0, 0, 0, 0, 0, 0, 0, 0>>, len |-> 10, label |-> 11],
    [prefix |-> <<\hFC00, 0, 0, 0, 0, 0, 0, 0>>, len |-> 7, label |-> 13],
    [prefix |-> <<0, 0, 0, 0, 0, 0, 0, 0>>, len |-> 0, label |-> 1]>>

\* How many leading bits of group k a prefix of len bits covers.
BitsIn(len, k) ==
  LET r == len - 16 * (k - 1) IN IF r >= 16 THEN 16 ELSE IF r <= 0 THEN 0 ELSE r

\* The address a lies in the prefix of table entry e.
InPrefix(a, e) ==
  \A k \in 1..8 :
    a[k] \div (2 ^ (16 - BitsIn(e.len, k))) = e.prefix[k] \div (2 ^ (16 - BitsIn(e.len, k)))

FirstMatch(a) ==
  CHOOSE k \in 1..Len(PolicyTable) :
    /\ InPrefix(a, PolicyTable[k])
    /\ \A j \in 1..(k - 1) : ~InPrefix(a, PolicyTable[j])

LongestMatches(a) ==
  {k \in 1..Len(PolicyTable) :
     /\ InPrefix(a, PolicyTable[k])
     /\ \A j \in 1..Len(PolicyTable) :
          InPrefix(a, PolicyTable[j]) => PolicyTable[j].len <= PolicyTable[k].len}

Candidates == <<cand_dest_addr_1, cand_dest_addr_2, cand_dest_addr_3>>

\* C20: the label dns_get_precedence_label returns for an address is the
\* label of the first prefix, in the order ::1/128, ::ffff:0:0/96, ::/96,
\* 2001::/32, 2002::/16, 3ffe::/16, fec0::/10, fc00::/7, ::/0, that holds the
\* address; exactly one table entry is the longest prefix holding the
\* address and it carries the same label; :: gets V4Compat and ::1 Localhost.
C20_LabelByPrefix ==
  cpc \in {"classified", "compared"} =>
    \A n \in 1..3 :
      /\ cclass[n].label = PolicyTable[FirstMatch(Candidates[n])].label
      /\ LongestMatches(Candidates[n]) = {FirstMatch(Candidates[n])}
      /\ Candidates[n] = <<0, 0, 0, 0, 0, 0, 0, 0>> => cclass[n].label = 3
      /\ Candidates[n] = <<0, 0, 0, 0, 0, 0, 0, 1>> => cclass[n].label = 0

\* ::1, :: and an address of fc00::/7 were labelled Localhost, V4Compat and
\* ULA.
C20_Witness ==
  /\ cpc = "classified"
  /\ cand_dest_addr_1 = <<0, 0, 0, 0, 0, 0, 0, 0>>
  /\ cand_dest_addr_2 = <<0, 0, 0, 0, 0, 0, 0, 1>>
  /\ cand_dest_addr_3 = <<\hFD00, 0, 0, 0, 0, 0, 0, 1>>
  /\ cclass[1].label = 3
  /\ cclass[2].label = 0
  /\ cclass[3].label = 13

(***************************************************************************)
(* C21: the scope of an address                                            *)
(***************************************************************************)
\* a lies in the prefix p of len bits.
Within(a, p, len) == InPrefix(a, [prefix |-> p, len |-> len, label |-> 0])

\* The scope the claim gives for an address in IPv6 form.
ClaimedScope(a) ==
  IF Within(a, <<\hFF00, 0, 0, 0, 0, 0, 0, 0>>, 8) THEN a[1] % 16
  ELSE IF \/ Within(a, <<\hFE80, 0, 0, 0, 0, 0, 0, 0>>, 10)
          \/ a = <<0, 0, 0, 0, 0, 0, 0, 1>>
          \/ Within(a, <<0, 0, 0, 0, 0, \hFFFF, \hA9FE, 0>>, 112)
          \/ Within(a, <<0, 0, 0, 0, 0, \hFFFF, \h7F00, 0>>, 104)
       THEN 2
  ELSE IF Within(a, <<\hFEC0, 0, 0, 0, 0, 0, 0, 0>>, 10) THEN 5
  ELSE 14

ClaimedPrecedence ==
  [l \in Labels |->
     IF l = 0 THEN 50
     ELSE IF l = 1 THEN 40
     ELSE IF l = 2 THEN 30
     ELSE IF l = 3 THEN 1
     ELSE IF l = 4 THEN 35
     ELSE IF l = 5 THEN 5
     ELSE IF l = 11 THEN 1
     ELSE IF l = 12 THEN 1
     ELSE IF l = 13 THEN 3
     ELSE 0]

\* C22: dns_precedence_for_label returns 50, 40, 30, 1, 35, 5 for the labels
\* 0 to 5, 1, 1, 3 for the labels 11, 12, 13, and 0 for every other value of
\* a u8_t label.
C22_Precedence ==
  precedence_ret # -1 => precedence_ret = ClaimedPrecedence[label_arg]

\* The function was called with a label no address gets, and returned 0.
C22_Witness ==
  /\ label_arg = 255
  /\ precedence_ret = 0

(***************************************************************************)
(* C23: the zone id takes no part                                          *)
(***************************************************************************)
\* The list with the zone id of every V6 address replaced by f[k].
Rezone(list, f) ==
  [k \in 1..Len(list) |->
     IF list[k].type = "V6" THEN [list[k] EXCEPT !.zone = f[k]] ELSE list[k]]

\* The call's lists with other zone ids: each V6 destination carries its
\* input position, each V6 source the same zone id.  Two calls that differ
\* in zone ids only have these lists in common.
RezonedDest == Rezone(in_dest, [k \in 1..Len(in_dest) |-> k])

RezonedSrc == Rezone(cand_source_addr_list, [k \in 1..Len(cand_source_addr_list) |-> 9])

RezonedResult == lwip_sortdestinationaddresses(RezonedDest, RezonedSrc)

SameButZone(x, y) == x.type = y.type /\ x.addr = y.addr

\* C23: a call and the call with other zone ids on its V6 addresses give
\* every destination the same scope and label and every pair the same
\* comparator result, apply the same permutation, and each returned element
\* has the zone id it had in the input.
C23_ZoneIgnored ==
  spc = "done" =>
    /\ \A k \in 1..Len(in_dest) :
         /\ dns_addr_get_scope(MappedView(RezonedDest[k]))
              = dns_addr_get_scope(MappedView(in_dest[k]))
         /\ dns_get_precedence_label(MappedView(RezonedDest[k]))
              = dns_get_precedence_label(MappedView(in_dest[k]))
    /\ LET rezoned == RezonedDest
           rezoned_flags == SourceSummary(RezonedSrc)
           flags == SummaryOfCall
       IN \A i \in 1..Len(in_dest) : \A j \in 1..Len(in_dest) :
            Cmp(rezoned[i], rezoned[j], rezoned_flags) = Cmp(in_dest[i], in_dest[j], flags)
    /\ RezonedResult = Rezone(dest_addr_list, origin)
    /\ \A p \in 1..Len(dest_addr_list) : dest_addr_list[p] = in_dest[origin[p]]

\* A returned sort moved a destination with a zone id, and the same address
\* without one, to other positions.
C23_Witness ==
  /\ spc = "done"
  /\ \E p \in 1..Len(dest_addr_list) : \E q \in 1..Len(dest_addr_list) :
       /\ dest_addr_list[p].zone # 0
       /\ origin[p] # p
       /\ SameButZone(dest_addr_list[p], dest_addr_list[q])
       /\ dest_addr_list[q].zone = 0
       /\ origin[q] # q

(***************************************************************************)
(* C24: the collected candidate sources are bounded                        *)
(***************************************************************************)
\* The address at slot s of interface n: slot 0 is the IPv4 address.
AddressAt(pos) ==
  IF pos[2] = 0 THEN if_table[pos[1]].ip_addr ELSE if_table[pos[1]].ip6_addr[pos[2]]

\* Table order of the slots.
Before(p, q) == p[1] < q[1] \/ (p[1] = q[1] /\ p[2] < q[2])

\* The slots the walk has passed.
Walked(pos) ==
  CASE kpc = "ip4" -> pos[1] < netif_index
    [] kpc = "ip6" -> pos[1] < netif_index \/ (pos[1] = netif_index /\ pos[2] <= if_addr_index)
    [] kpc = "sort" -> TRUE
    [] kpc = "returned" -> dest_addr_list_length > 1
    [] OTHER -> FALSE

\* The slots passed so far that hold an address other than the any-address.
NonZeroWalked ==
  {pos \in (1..Len(if_table)) \X (0..LWIP_IPV6_NUM_ADDRESSES) :
     /\ Walked(pos)
     /\ AddressAt(pos) # IP4_ADDR_ANY
     /\ AddressAt(pos) # IP6_ADDR_ANY}

Smaller(m, n) == IF m < n THEN m ELSE n

\* C24: at every point of the walk the counter is at most
\* MAX_CAND_SOURCE_ADDRESSES = 6 x (LWIP_IPV6_NUM_ADDRESSES + 1) and counts
\* the collected addresses; these are the first non-zero IPv4 addresses and
\* IPv6 slots in table order, whatever the slot's state, up to the bound,
\* the rest being dropped; with a destination list of length 0 or 1 no
\* address of an interface is read and nothing is collected.
C24_BoundedSources ==
  /\ cand_source_addr_list_count <= 6 * (LWIP_IPV6_NUM_ADDRESSES + 1)
  /\ cand_source_addr_list_count <= MAX_CAND_SOURCE_ADDRESSES
  /\ Len(collected) = cand_source_addr_list_count
  /\ Len(taken) = Smaller(Cardinality(NonZeroWalked), MAX_CAND_SOURCE_ADDRESSES)
  /\ \A i \in 1..Len(taken) :
       /\ taken[i] \in NonZeroWalked
       /\ Cardinality({pos \in NonZeroWalked : Before(pos, taken[i])}) = i - 1
       /\ collected[i] = AddressAt(taken[i])
  /\ kpc \in {"sort", "returned"} /\ dest_addr_list_length > 1
       => collected = CollectSources(if_table)
  /\ dest_addr_list_length <= 1 => reads = 0 /\ collected = <<>>

\* The walk of a table with more addresses than the bound has ended: the
\* bound was reached with a tentative slot among the collected, and the
\* addresses after it were dropped.
C24_Witness ==
  /\ kpc = "returned"
  /\ cand_source_addr_list_count = MAX_CAND_SOURCE_ADDRESSES
  /\ Cardinality(NonZeroWalked) > MAX_CAND_SOURCE_ADDRESSES
  /\ \E i \in 1..Len(taken) :
       /\ taken[i][2] > 0
       /\ if_table[taken[i][1]].ip6_addr_state[taken[i][2]] = "TENTATIVE"

=============================================================================
